---- MODULE Spec2Model ----
(***************************************************************************)
(* Moodify: the multi-provider music-discovery pipeline.                   *)
(*                                                                         *)
(*   - the intent parsers of the three adapters (parseInput),              *)
(*   - the YouTube, SoundCloud and Spotify adapters (searchMusic),         *)
(*   - the aggregator UnifiedMusicService (searchProvider, scoreTrack,     *)
(*     mergeAndRankResults, searchMusic, smartSearch).                     *)
(*                                                                         *)
(* JavaScript strings are TLA+ strings; Len, \o, SubSeq, Head and Tail     *)
(* work on them character by character.  Scores are kept as integers:      *)
(* every score is multiplied by a fixed scale, and Math.log10 is taken in  *)
(* thousandths (Log10Milli) of the popularity values that the catalogs of  *)
(* this module hold.  Dates are day numbers.                               *)
(***************************************************************************)
EXTENDS Integers, Sequences, FiniteSets, TLC

VARIABLES
    \* ---- one call of UnifiedMusicService.searchMusic / smartSearch ----
    pc,               \* position of the call
    entry,            \* "searchMusic" | "smartSearch"
    configured,       \* [provider -> BOOLEAN]: credentials present in process.env
    searchConfig,     \* the effective SearchConfig of the call
    vibeInput,        \* the raw input of the call
    enabledProviders, \* enabled providers, ascending priority
    idx,              \* index of the sequential loop
    allTracks,        \* accumulated UnifiedTrack[]
    usedProviders,    \* providers marked as contributed
    pending,          \* providers whose parallel search has not settled
    parallelResults,  \* [provider -> settled result of the parallel phase]
    response,         \* the UnifiedSearchResponse, or the error thrown
    adapterLog,       \* history: what each adapter call did
    \* ---- the intent parsers and query builders ----
    pPc, pInput, pIntent, pQuery, pPrevQuery,
    \* ---- one call of YouTubeService.searchMusic ----
    yPc, yInput, yUpstream, yResult, yFirst, ySearches,
    yError,           \* message of the Error searchMusic threw, "" when none
    yStatus,          \* HTTP status the search route answered, 0 before
    \* ---- calls of SpotifyService.getAccessToken ----
    tPc,              \* [call -> position]
    tVia,             \* "request": each call serves its own route request
    tConfigured,      \* SPOTIFY_CLIENT_ID and SPOTIFY_CLIENT_SECRET are set
    clock,            \* Date.now()
    accessToken,      \* [service -> this.accessToken], 0 for null
    tokenExpiry,      \* [service -> this.tokenExpiry]
    tReply,           \* [call -> the token response it is parsing]
    tLast,            \* history: [call -> how its last getAccessToken ended]
    tRequests,        \* history: the token requests sent
    tIssued,          \* history: [token -> when and with what it was stored]
    \* ---- the time a call of searchMusic spends waiting ----
    timed,            \* the waiting time of the call is recorded
    waited,           \* history: milliseconds spent in the awaits so far
    \* ---- one POST to the unified music-search route ----
    uProvider,        \* body.provider of the request, "" when absent
    uAnswer,          \* the answer of the route, <<>> until it is given
    \* ---- the rate limiter of a route ----
    rlRoute,          \* the route: "unified", "youtube", or "off"
    rlNow,            \* Date.now()
    rlStore,          \* rateLimitStore: [key -> {count, resetTime}]
    rlLog,            \* history: the admissions per key and time, the last answer
    \* ---- one application of a pure function ----
    fnName,           \* the function, "off" when none is applied
    fnInput,          \* its argument
    fnOutput          \* its value, <<>> until it is applied

aggVars   == <<pc, entry, configured, searchConfig, vibeInput, enabledProviders,
               idx, allTracks, usedProviders, pending, parallelResults,
               response, adapterLog>>
parseVars == <<pPc, pInput, pIntent, pQuery, pPrevQuery>>
ytVars    == <<yPc, yInput, yUpstream, yResult, yFirst, ySearches, yError, yStatus>>
tokVars   == <<tPc, tVia, tConfigured, clock, accessToken, tokenExpiry, tReply,
               tLast, tRequests, tIssued>>
waitVars  == <<timed, waited>>
routeVars == <<uProvider, uAnswer, rlRoute, rlNow, rlStore, rlLog>>
fnVars    == <<fnName, fnInput, fnOutput>>
svcVars   == <<tokVars, waitVars, routeVars, fnVars>>
vars      == <<aggVars, parseVars, ytVars, svcVars>>

-----------------------------------------------------------------------------
(* Strings *)

UpperToLower ==
    [c \in {"A","B","C","D","E","F","G","H","I","J","K","L","M",
            "N","O","P","Q","R","S","T","U","V","W","X","Y","Z"} |->
       CASE c = "A" -> "a" [] c = "B" -> "b" [] c = "C" -> "c" [] c = "D" -> "d"
         [] c = "E" -> "e" [] c = "F" -> "f" [] c = "G" -> "g" [] c = "H" -> "h"
         [] c = "I" -> "i" [] c = "J" -> "j" [] c = "K" -> "k" [] c = "L" -> "l"
         [] c = "M" -> "m" [] c = "N" -> "n" [] c = "O" -> "o" [] c = "P" -> "p"
         [] c = "Q" -> "q" [] c = "R" -> "r" [] c = "S" -> "s" [] c = "T" -> "t"
         [] c = "U" -> "u" [] c = "V" -> "v" [] c = "W" -> "w" [] c = "X" -> "x"
         [] c = "Y" -> "y" [] c = "Z" -> "z"]

RECURSIVE ToLowerCase(_)
ToLowerCase(s) ==
    IF s = "" THEN ""
    ELSE LET c == Head(s)
         IN  (IF c \in DOMAIN UpperToLower THEN UpperToLower[c] ELSE c)
                 \o ToLowerCase(Tail(s))

\* String.prototype.includes
Includes(s, k) ==
    \E i \in 1..(Len(s) - Len(k) + 1) : SubSeq(s, i, i + Len(k) - 1) = k

\* String.prototype.endsWith
EndsWith(s, k) ==
    Len(k) <= Len(s) /\ SubSeq(s, Len(s) - Len(k) + 1, Len(s)) = k

\* Array.prototype.some over a sequence of keywords
SomeIncluded(s, keywords) ==
    \E i \in 1..Len(keywords) : Includes(s, keywords[i])

\* number of the keywords of a sequence that s includes (forEach ... if includes)
RECURSIVE CountIncluded(_, _)
CountIncluded(s, keywords) ==
    IF keywords = <<>> THEN 0
    ELSE (IF Includes(s, Head(keywords)) THEN 1 ELSE 0)
             + CountIncluded(s, Tail(keywords))

\* String.prototype.split(' '): the pieces between single spaces
RECURSIVE SplitFrom(_, _)
SplitFrom(s, word) ==
    IF s = "" THEN <<word>>
    ELSE IF Head(s) = " " THEN <<word>> \o SplitFrom(Tail(s), "")
         ELSE SplitFrom(Tail(s), word \o Head(s))

Split(s) == SplitFrom(s, "")

\* String.prototype.split(/\s+/): runs of spaces separate (the inputs of the
\* model hold no other white space)
RECURSIVE SplitRunsFrom(_, _, _)
SplitRunsFrom(s, word, inRun) ==
    IF s = "" THEN <<word>>
    ELSE IF Head(s) = " "
         THEN IF inRun THEN SplitRunsFrom(Tail(s), word, TRUE)
              ELSE <<word>> \o SplitRunsFrom(Tail(s), "", TRUE)
         ELSE SplitRunsFrom(Tail(s), word \o Head(s), FALSE)

SplitRuns(s) == SplitRunsFrom(s, "", FALSE)

\* String.prototype.trim (spaces)
RECURSIVE TrimStart(_)
TrimStart(s) == IF s # "" /\ Head(s) = " " THEN TrimStart(Tail(s)) ELSE s

RECURSIVE TrimEnd(_)
TrimEnd(s) ==
    IF s # "" /\ SubSeq(s, Len(s), Len(s)) = " "
    THEN TrimEnd(SubSeq(s, 1, Len(s) - 1)) ELSE s

Trim(s) == TrimEnd(TrimStart(s))

\* Array.prototype.join(' ')
RECURSIVE Join(_)
Join(words) ==
    IF words = <<>> THEN ""
    ELSE IF Len(words) = 1 THEN Head(words)
         ELSE Head(words) \o " " \o Join(Tail(words))

Min(a, b) == IF a <= b THEN a ELSE b
Max(a, b) == IF a >= b THEN a ELSE b

\* Array.prototype.slice(0, n), n >= 0
Slice(seq, n) == SubSeq(seq, 1, Min(n, Len(seq)))

\* Array.prototype.sort((a, b) => b.score - a.score): descending by score,
\* stable (ECMAScript 2019): equal scores keep their order.
RECURSIVE InsertByScore(_, _)
InsertByScore(sorted, x) ==
    IF sorted = <<>> THEN <<x>>
    ELSE IF Head(sorted).score >= x.score
         THEN <<Head(sorted)>> \o InsertByScore(Tail(sorted), x)
         ELSE <<x>> \o sorted

RECURSIVE SortByScoreFrom(_, _)
SortByScoreFrom(seq, sorted) ==
    IF seq = <<>> THEN sorted
    ELSE SortByScoreFrom(Tail(seq), InsertByScore(sorted, Head(seq)))

SortByScore(seq) == SortByScoreFrom(seq, <<>>)

-----------------------------------------------------------------------------
(* The clock of a run: Date.now() as a day number, and the current year. *)
Clock == [today |-> 20759, year |-> 2026]

-----------------------------------------------------------------------------
(* Intent parsers.  A keyword table is the sequence of its categories in   *)
(* declared order (Object.entries of an object with string keys).          *)

\* the detection loop without its break: the last matching category stays
RECURSIVE DetectLast(_, _, _)
DetectLast(input, table, default) ==
    IF table = <<>> THEN default
    ELSE IF SomeIncluded(input, table[Len(table)].keywords)
         THEN table[Len(table)].name
         ELSE DetectLast(input, SubSeq(table, 1, Len(table) - 1), default)

\* the detection loop over a variable declared without its initial value
RECURSIVE DetectNoDefault(_, _, _)
DetectNoDefault(input, table, default) ==
    IF table = <<>> THEN "undefined"
    ELSE IF SomeIncluded(input, Head(table).keywords)
         THEN Head(table).name
         ELSE DetectNoDefault(input, Tail(table), default)

\* let detected = default;
\* for (const [name, keywords] of Object.entries(table))
\*     if (keywords.some(k => input.includes(k))) { detected = name; break; }
RECURSIVE Detect(_, _, _)
Detect(input, table, default) ==
    IF table = <<>> THEN default
    ELSE IF SomeIncluded(input, Head(table).keywords)
         THEN Head(table).name
         ELSE Detect(input, Tail(table), default)

\* ---- YouTubeService.parseInput (SoundCloudService.parseInput has the same
\* three tables) ----
YTEnvironments == <<
    [name |-> "gym",   keywords |-> <<"gym", "workout", "fitness", "training", "exercise">>],
    [name |-> "study", keywords |-> <<"study", "focus", "concentration", "work", "office">>],
    [name |-> "party", keywords |-> <<"party", "dance", "club", "celebration", "rave">>],
    [name |-> "sleep", keywords |-> <<"sleep", "bedtime", "night", "relax", "calm">>],
    [name |-> "drive", keywords |-> <<"drive", "car", "road", "travel", "cruise">>],
    [name |-> "cafe",  keywords |-> <<"cafe", "coffee", "background", "ambient">>] >>

YTSpeeds == <<
    [name |-> "slow",   keywords |-> <<"slow", "chill", "relaxed", "mellow", "downtempo", "peaceful">>],
    [name |-> "medium", keywords |-> <<"medium", "moderate", "steady", "groove", "normal">>],
    [name |-> "fast",   keywords |-> <<"fast", "upbeat", "energetic", "high tempo", "uptempo", "intense">>] >>

YTVibes == <<
    [name |-> "sad",       keywords |-> <<"sad", "melancholy", "depressing", "emotional", "crying">>],
    [name |-> "happy",     keywords |-> <<"happy", "joyful", "cheerful", "positive", "uplifting">>],
    [name |-> "chill",     keywords |-> <<"chill", "lofi", "calm", "peaceful", "zen">>],
    [name |-> "energetic", keywords |-> <<"energetic", "hype", "pump", "motivational", "power">>],
    [name |-> "romantic",  keywords |-> <<"romantic", "love", "heart", "valentine", "couple">>],
    [name |-> "dark",      keywords |-> <<"dark", "gothic", "scary", "horror", "evil">>] >>

YTAnimeKeywords == <<
    "anime", "naruto", "bleach", "one piece", "dragon ball", "attack on titan",
    "demon slayer", "my hero academia", "death note", "tokyo ghoul", "fullmetal",
    "cowboy bebop", "evangelion", "jojo", "hunter x hunter", "fairy tail",
    "sword art online", "japanese", "ost", "soundtrack", "opening", "ending",
    "op", "ed", "theme song", "shippuden", "boruto", "chakra", "ninja",
    "sasuke", "sakura", "kakashi", "itachi", "madara", "hokage" >>

\* vibeInput.split(' ')[0]
FirstWord(input0) == Split(input0)[1]

\* a || b on strings
OrElse(a, b) == IF a # "" THEN a ELSE b

YouTubeParseInput(input0) ==
    LET input == ToLowerCase(input0)
        isAnime == SomeIncluded(input, YTAnimeKeywords)
        detectedEnvironment == Detect(input, YTEnvironments, "")
        detectedSpeed == Detect(input, YTSpeeds, "")
        detectedVibe == Detect(input, YTVibes, "")
        genre == IF Includes(input, "lofi")
                    \/ (detectedVibe = "chill" /\ detectedEnvironment = "study")
                 THEN "lofi"
                 ELSE IF Includes(input, "edm") \/ Includes(input, "electronic")
                      THEN "EDM"
                      ELSE IF isAnime THEN "anime" ELSE ""
    IN  [vibe |-> OrElse(detectedVibe, FirstWord(input0)),
         environment |-> detectedEnvironment,
         speed |-> detectedSpeed,
         isAnime |-> isAnime,
         genre |-> genre]

SoundCloudParseInput(input0) ==
    LET input == ToLowerCase(input0)
        detectedEnvironment == Detect(input, YTEnvironments, "")
        detectedSpeed == Detect(input, YTSpeeds, "")
        detectedVibe == Detect(input, YTVibes, "")
        genre == IF Includes(input, "lofi")
                    \/ (detectedVibe = "chill" /\ detectedEnvironment = "study")
                 THEN "lofi"
                 ELSE IF Includes(input, "edm") \/ Includes(input, "electronic")
                 THEN "electronic"
                 ELSE IF Includes(input, "hip hop") \/ Includes(input, "rap")
                 THEN "hip-hop"
                 ELSE IF Includes(input, "jazz") THEN "jazz"
                 ELSE IF Includes(input, "rock") THEN "rock" ELSE ""
    IN  [vibe |-> OrElse(detectedVibe, FirstWord(input0)),
         environment |-> detectedEnvironment,
         speed |-> detectedSpeed,
         genre |-> genre]

\* ---- SpotifyService.parseInput ----
SpotifyEnvironments == <<
    [name |-> "gym",     keywords |-> <<"gym", "workout", "fitness", "training", "exercise", "running", "cardio">>],
    [name |-> "study",   keywords |-> <<"study", "focus", "concentration", "work", "office", "reading", "homework">>],
    [name |-> "party",   keywords |-> <<"party", "dance", "club", "celebration", "rave", "festival", "wedding">>],
    [name |-> "sleep",   keywords |-> <<"sleep", "bedtime", "night", "relax", "calm", "lullaby", "peaceful">>],
    [name |-> "drive",   keywords |-> <<"drive", "car", "road", "travel", "cruise", "highway", "journey">>],
    [name |-> "cafe",    keywords |-> <<"cafe", "coffee", "background", "ambient", "restaurant", "lounge">>],
    [name |-> "morning", keywords |-> <<"morning", "sunrise", "breakfast", "fresh", "wake up">>],
    [name |-> "evening", keywords |-> <<"evening", "sunset", "dinner", "wind down", "twilight">>] >>

SpotifySpeedPatterns == <<
    [name |-> "slow",   keywords |-> <<"slow", "chill", "relaxed", "mellow", "downtempo", "peaceful">>],
    [name |-> "medium", keywords |-> <<"medium", "moderate", "steady", "groove", "normal">>],
    [name |-> "fast",   keywords |-> <<"fast", "upbeat", "energetic", "high tempo", "uptempo", "intense">>] >>

SpotifyVibePatterns == <<
    [name |-> "sad",       keywords |-> <<"sad", "melancholy", "depressing", "emotional", "crying", "heartbreak", "breakup", "lonely">>],
    [name |-> "happy",     keywords |-> <<"happy", "joyful", "cheerful", "positive", "uplifting", "excited", "celebration", "party">>],
    [name |-> "chill",     keywords |-> <<"chill", "lofi", "calm", "peaceful", "zen", "ambient", "relaxing", "mellow">>],
    [name |-> "energetic", keywords |-> <<"energetic", "hype", "pump", "motivational", "power", "intense", "workout", "gym">>],
    [name |-> "romantic",  keywords |-> <<"romantic", "love", "heart", "valentine", "couple", "intimate", "wedding", "date">>],
    [name |-> "dark",      keywords |-> <<"dark", "gothic", "moody", "atmospheric", "mysterious", "haunting", "eerie">>],
    [name |-> "nostalgic", keywords |-> <<"nostalgic", "memories", "throwback", "vintage", "retro", "old school">>],
    [name |-> "spiritual", keywords |-> <<"spiritual", "meditation", "devotional", "prayer", "sacred", "religious">>] >>

SpotifyGenreKeywords == <<
    [name |-> "bollywood",  keywords |-> <<"bollywood", "hindi", "indian", "desi", "filmi", "bhangra", "punjabi">>],
    [name |-> "electronic", keywords |-> <<"electronic", "edm", "house", "techno", "dubstep", "dance">>],
    [name |-> "hip-hop",    keywords |-> <<"hip hop", "rap", "trap", "hip-hop", "gangsta", "freestyle">>],
    [name |-> "rock",       keywords |-> <<"rock", "metal", "punk", "alternative", "grunge", "hard rock">>],
    [name |-> "pop",        keywords |-> <<"pop", "mainstream", "chart", "top hits", "radio">>],
    [name |-> "jazz",       keywords |-> <<"jazz", "swing", "blues", "smooth jazz", "bebop">>],
    [name |-> "classical",  keywords |-> <<"classical", "orchestra", "symphony", "opera", "baroque">>],
    [name |-> "folk",       keywords |-> <<"folk", "country", "acoustic", "bluegrass", "americana">>],
    [name |-> "r&b",        keywords |-> <<"r&b", "soul", "funk", "motown", "neo soul">>],
    [name |-> "indie",      keywords |-> <<"indie", "independent", "underground", "alternative">>],
    [name |-> "latin",      keywords |-> <<"latin", "spanish", "reggaeton", "salsa", "bachata", "merengue">>],
    [name |-> "k-pop",      keywords |-> <<"k-pop", "korean", "kpop", "korean pop">>],
    [name |-> "reggae",     keywords |-> <<"reggae", "ska", "dancehall", "dub">>],
    [name |-> "world",      keywords |-> <<"world", "ethnic", "traditional", "cultural">>],
    [name |-> "ambient",    keywords |-> <<"ambient", "chillout", "lounge", "downtempo", "atmospheric">>] >>

\* const energy = speed === 'fast' ? 'high' : speed === 'slow' ? 'low' : 'medium'
EnergyOf(speed) ==
    IF speed = "fast" THEN "high" ELSE IF speed = "slow" THEN "low" ELSE "medium"

\* const valence = ['sad','dark'].includes(vibe) ? 'negative'
\*               : ['happy','energetic'].includes(vibe) ? 'positive' : 'neutral'
ValenceOf(vibe) ==
    IF vibe \in {"sad", "dark"} THEN "negative"
    ELSE IF vibe \in {"happy", "energetic"} THEN "positive" ELSE "neutral"

SpotifyParseInput(input0) ==
    LET input == ToLowerCase(input0)
        detectedEnvironment == Detect(input, SpotifyEnvironments, "")
        detectedSpeed == Detect(input, SpotifySpeedPatterns, "medium")
        detectedVibe == Detect(input, SpotifyVibePatterns, "")
        genre == Detect(input, SpotifyGenreKeywords, "")
    IN  [vibe |-> OrElse(detectedVibe, FirstWord(input0)),
         environment |-> detectedEnvironment,
         speed |-> detectedSpeed,
         energy |-> EnergyOf(detectedSpeed),
         valence |-> ValenceOf(detectedVibe),
         genre |-> genre]

-----------------------------------------------------------------------------
(* Query builders *)

\* YouTubeService.generateSearchQuery.  The two draws of Math.random() are
\* the parameters animeTerm (an index of animeTerms) and musicType.
YTAnimeTerms == <<"opening", "ending", "OST", "theme", "bgm", "background music">>
YTMusicTypes == {"music", "songs"}

YTExclusions(isRetry) ==
    IF isRetry THEN <<"-tutorial", "-review", "-reaction">>
    ELSE <<"-tutorial", "-review", "-reaction", "-interview", "-vlog",
           "-news", "-documentary", "-podcast", "-talk", "-lecture">>

YouTubeGenerateSearchQuery(input0, isRetry, animeTerm, musicType) ==
    LET parsed == YouTubeParseInput(input0)
        base0 ==
            IF parsed.isAnime
            THEN input0 \o " OST soundtrack opening ending theme music"
                     \o " " \o YTAnimeTerms[animeTerm]
            ELSE IF Includes(input0, "night") \/ Includes(input0, "rain")
                 THEN input0 \o " lofi chill ambient rain sounds"
                 ELSE parsed.vibe \o " " \o musicType
                      \o (IF parsed.environment # "" THEN " " \o parsed.environment ELSE "")
                      \o (IF parsed.speed # "" THEN " " \o parsed.speed ELSE "")
        baseQuery == IF parsed.genre # "" THEN base0 \o " " \o parsed.genre ELSE base0
    IN  baseQuery \o " " \o Join(YTExclusions(isRetry))

\* SoundCloudService.generateSearchQuery
SoundCloudGenerateSearchQuery(input0) ==
    LET parsed == SoundCloudParseInput(input0)
        baseQuery ==
            IF parsed.genre # "" THEN parsed.vibe \o " " \o parsed.genre
            ELSE parsed.vibe \o " music"
                 \o (IF parsed.environment # "" THEN " " \o parsed.environment ELSE "")
                 \o (IF parsed.speed # "" THEN " " \o parsed.speed ELSE "")
    IN  Trim(baseQuery)

\* SpotifyService.buildSearchQuery
SpotifyBuildSearchQuery(input0) ==
    LET parsed == SpotifyParseInput(input0)
        q0 == OrElse(parsed.vibe, input0)
        q1 == IF parsed.genre # "" THEN q0 \o " genre:" \o parsed.genre ELSE q0
    IN  Trim(q1 \o " year:" \o ToString(Clock.year - 5) \o "-" \o ToString(Clock.year))

\* SpotifyService.extractGenreFromInput
SpotifyExtractGenreFromInput(input0) == OrElse(SpotifyParseInput(input0).genre, "pop")

-----------------------------------------------------------------------------
(* Numbers *)

\* parseInt of a string of decimal digits
DigitValue ==
    [c \in {"0","1","2","3","4","5","6","7","8","9"} |->
       CASE c = "0" -> 0 [] c = "1" -> 1 [] c = "2" -> 2 [] c = "3" -> 3
         [] c = "4" -> 4 [] c = "5" -> 5 [] c = "6" -> 6 [] c = "7" -> 7
         [] c = "8" -> 8 [] c = "9" -> 9]

RECURSIVE ParseDigits(_, _)
ParseDigits(s, acc) ==
    IF s = "" THEN acc ELSE ParseDigits(Tail(s), 10 * acc + DigitValue[Head(s)])

RECURSIVE TakeDigits(_)
TakeDigits(s) ==
    IF s # "" /\ Head(s) \in DOMAIN DigitValue
    THEN Head(s) \o TakeDigits(Tail(s)) ELSE ""

\* 1000 * Math.log10(n), rounded, for the numbers the catalogs of the model
\* hold (and floor(log10) * 1000 for any other).
RECURSIVE FloorLog10(_)
FloorLog10(n) == IF n < 10 THEN 0 ELSE 1 + FloorLog10(n \div 10)

Log10Milli(n) ==
    CASE n = 96 -> 1982 [] n = 93 -> 1968 [] n = 91 -> 1959
      [] n = 89 -> 1949 [] n = 88 -> 1944
      [] OTHER -> 1000 * FloorLog10(n)

-----------------------------------------------------------------------------
(* YouTubeService.  An upstream item is a search result joined with its    *)
(* entry of videos.list: videoId, title, channelTitle, publishedAt (a day  *)
(* number), duration (ISO 8601, "" when videos.list has no entry or no     *)
(* contentDetails for it), viewCount.  Adapter scores are in thousandths.  *)

\* the text after the first "PT" of s
RECURSIVE AfterPT(_)
AfterPT(s) ==
    IF Len(s) < 2 THEN ""
    ELSE IF SubSeq(s, 1, 2) = "PT" THEN SubSeq(s, 3, Len(s))
         ELSE AfterPT(Tail(s))

\* the optional groups (\d+H)?(\d+M)?(\d+S)? of the regular expression
DurationUnits == <<[letter |-> "H", seconds |-> 3600],
                   [letter |-> "M", seconds |-> 60],
                   [letter |-> "S", seconds |-> 1]>>

\* the seconds of the groups of `units` matched at the start of s, in order
RECURSIVE DurationGroups(_, _)
DurationGroups(s, units) ==
    IF units = <<>> THEN 0
    ELSE LET d == TakeDigits(s)
         IN  IF d # "" /\ Len(s) > Len(d)
                       /\ SubSeq(s, Len(d) + 1, Len(d) + 1) = Head(units).letter
             THEN ParseDigits(d, 0) * Head(units).seconds
                  + DurationGroups(SubSeq(s, Len(d) + 2, Len(s)), Tail(units))
             ELSE DurationGroups(s, Tail(units))

\* YouTubeService.parseISO8601Duration: /PT(\d+H)?(\d+M)?(\d+S)?/
ParseISO8601Duration(duration) ==
    IF ~Includes(duration, "PT") THEN 0
    ELSE DurationGroups(AfterPT(duration), DurationUnits)

YTBadKeywords == <<"tutorial", "lesson", "how to", "reaction", "review", "podcast",
                   "interview", "live stream", "full album", "audiobook", "lecture">>

\* isValidMusicVideo without its test of the minimal duration
IsValidMusicVideoNoMinimum(titleRaw, duration, viewCount) ==
    LET title == ToLowerCase(titleRaw)
        isPlaylistOrMix == Includes(title, "playlist") \/ Includes(title, "mix")
                              \/ Includes(title, "compilation")
    IN  /\ ~(duration > 600 /\ ~isPlaylistOrMix)
        /\ ~(duration > 1800)
        /\ ~(viewCount < 100)
        /\ ~SomeIncluded(title, YTBadKeywords)

\* YouTubeService.isValidMusicVideo
IsValidMusicVideo(titleRaw, duration, viewCount) ==
    LET title == ToLowerCase(titleRaw)
        isPlaylistOrMix == Includes(title, "playlist") \/ Includes(title, "mix")
                              \/ Includes(title, "compilation")
    IN  /\ ~(duration < 60)
        /\ ~(duration > 600 /\ ~isPlaylistOrMix)
        /\ ~(duration > 1800)
        /\ ~(viewCount < 100)
        /\ ~SomeIncluded(title, YTBadKeywords)

YTMusicLabels == <<"universal", "sony", "warner", "columbia", "atlantic", "capitol",
                   "rca", "interscope">>

\* YouTubeService.getChannelScore
GetChannelScore(channelTitle, searchContext) ==
    LET channelLower == ToLowerCase(channelTitle)
        context == ToLowerCase(searchContext)
        B(cond, points) == IF cond THEN points ELSE 0
    IN    B(SomeIncluded(channelLower, <<"animevibe", "lo-fi senpai", "lofi senpai">>), 12)
        + B((Includes(context, "night") \/ Includes(context, "rain")
                \/ Includes(context, "anime"))
            /\ SomeIncluded(channelLower, <<"lo-fi senpai", "lofi senpai", "chilled cow",
                                            "lofigirl", "ambient", "rain sounds">>), 10)
        + B(SomeIncluded(channelLower, YTMusicLabels), 10)
        + B(Includes(channelLower, "official") \/ Includes(channelLower, "vevo"), 8)
        + B(SomeIncluded(channelLower, <<"animevibe", "crunchyroll", "funimation",
                "anime music", "ost", "lo-fi senpai", "lofi senpai", "anime songs",
                "naruto music", "bleach music">>), 9)
        + B(SomeIncluded(channelLower, <<"chillmusic", "lofigirl", "chilled cow", "ambient",
                "relaxing", "chill hop", "study music">>), 6)
        + B(Includes(channelLower, "topic") \/ EndsWith(channelLower, " - topic"), 8)
        + B(SomeIncluded(channelLower, <<"trap nation", "monstercat", "proximity",
                "mr suicidesheep", "cloudkid", "tribal trap", "chill nation", "wave music",
                "selected", "magic music", "animevibe", "lo-fi senpai", "lofi senpai",
                "anime vibe">>), 7)
        + B(SomeIncluded(context, <<"marvel", "disney", "dc", "netflix", "hbo", "paramount",
                "20th century", "pixar">>)
            /\ (Includes(channelLower, "official")
                   \/ SomeIncluded(channelLower, YTMusicLabels)), 8)
        - B(SomeIncluded(channelLower, <<"reaction", "react", "first time", "listening to",
                "tutorial", "lesson", "cover", "remix", "mashup", "nightcore", "slowed",
                "reverb">>), 15)

\* YouTubeService.getTitleScore
GetTitleScore(title, searchContext) ==
    LET titleLower == ToLowerCase(title)
        context == ToLowerCase(searchContext)
        A(cond, aesthetics, points) ==
            IF cond THEN points * CountIncluded(titleLower, aesthetics) ELSE 0
    IN    5 * CountIncluded(titleLower,
                <<"song", "track", "music", "audio", "hit", "single", "anthem">>)
        - 15 * CountIncluded(titleLower,
                <<"tutorial", "lesson", "review", "reaction", "interview", "vlog",
                  "gameplay", "how to", "explained", "analysis", "breakdown">>)
        - 8 * CountIncluded(titleLower,
                <<"compilation", "best of", "collection", "mixtape", "greatest hits",
                  "live performance", "concert", "acoustic version", "radio edit">>)
        + A(Includes(context, "night"),
                <<"night", "midnight", "3am", "late night", "nocturne", "moonlight",
                  "stars", "dark", "shadow", "twilight", "evening", "dusk">>, 10)
        + A(Includes(context, "sad") \/ Includes(context, "melancholy"),
                <<"sad", "melancholy", "melancholic", "sorrow", "tears", "crying",
                  "heartbreak", "lonely", "solitude", "grief", "pain", "blues">>, 8)
        + A(Includes(context, "lofi"),
                <<"lofi", "lo-fi", "chill", "study", "relaxing", "ambient",
                  "downtempo", "mellow", "soft", "calm", "peaceful">>, 8)
        + A(Includes(context, "jazz"),
                <<"jazz", "smooth", "saxophone", "piano", "bebop", "swing",
                  "blues", "soul", "smooth jazz", "neo soul">>, 8)
        + A(Includes(context, "movie") \/ Includes(context, "film"),
                <<"soundtrack", "ost", "theme", "score", "cinematic", "epic",
                  "orchestral", "film music", "movie music">>, 8)

\* YouTubeService.getRecencyBonus: published after the same date one year ago
GetRecencyBonus(publishedAt) == IF publishedAt > Clock.today - 365 THEN 2 ELSE 0

\* YouTubeService.getDurationScore
GetDurationScore(duration) ==
    IF duration >= 120 /\ duration <= 360 THEN 4
    ELSE IF duration >= 180 /\ duration <= 240 THEN 5
    ELSE IF duration >= 600 /\ duration <= 1200 THEN 2
    ELSE IF duration >= 1200 /\ duration <= 1800 THEN 1
    ELSE IF duration >= 60 /\ duration <= 120 THEN 1
    ELSE 0

\* the ScoredTrack of one upstream item of parsed duration `duration`
\* (performSearch, the end of the loop body)
YTScoredTrack(item, duration, searchContext) ==
    [videoId |-> item.videoId,
     title |-> OrElse(item.title, "Unknown Title"),
     channelTitle |-> OrElse(item.channelTitle, "Unknown Channel"),
     duration |-> duration,
     thumbnail |-> item.thumbnail,
     publishedAt |-> item.publishedAt,
     viewCount |-> item.viewCount,
     score |-> 1000 * (GetChannelScore(item.channelTitle, searchContext)
                       + GetTitleScore(item.title, searchContext)
                       + GetDurationScore(duration)
                       + GetRecencyBonus(item.publishedAt))
               + Min(Log10Milli(item.viewCount) - 3000, 5000)]

\* the loop body of performSearch for an item that has a videoId and
\* contentDetails: nothing, or the scored track
YTCandidate(item, duration, searchContext) ==
    IF ~IsValidMusicVideo(item.title, duration, item.viewCount) THEN <<>>
    ELSE <<YTScoredTrack(item, duration, searchContext)>>

\* the loop of performSearch over the items of the search response
RECURSIVE YTScoredTracks(_, _)
YTScoredTracks(items, searchContext) ==
    IF items = <<>> THEN <<>>
    ELSE (IF Head(items).videoId = "" \/ Head(items).duration = "" THEN <<>>
          ELSE YTCandidate(Head(items), ParseISO8601Duration(Head(items).duration),
                           searchContext))
         \o YTScoredTracks(Tail(items), searchContext)

\* the track returned as it is
WithScoreKept(track) == track

\* const { score, ...trackWithoutScore } = track
WithoutScore(track) == [f \in DOMAIN track \ {"score"} |-> track[f]]

\* tracks.map(({ score, ...trackWithoutScore }) => trackWithoutScore)
WithoutScores(tracks) == [i \in 1..Len(tracks) |-> WithoutScore(tracks[i])]

\* sort by score, keep the first ten, strip the scores
TopTracks(scoredTracks) == WithoutScores(Slice(SortByScore(scoredTracks), 10))

\* { tracks, totalResults: tracks.length }
Found(tracks) == [tracks |-> tracks, totalResults |-> Len(tracks)]

\* YouTubeService.performSearch on the upstream answer: status "none" when
\* the search response holds no items, else "ok" with the items
YouTubePerformSearch(answer, input0) ==
    IF answer.status = "none" THEN Found(<<>>)
    ELSE Found(TopTracks(YTScoredTracks(answer.items, input0)))

\* arr.filter((t, i) => arr.findIndex(u => u.videoId === t.videoId) === i)
RECURSIVE UniqueByVideoId(_, _)
UniqueByVideoId(tracks, seen) ==
    IF tracks = <<>> THEN <<>>
    ELSE IF Head(tracks).videoId \in seen THEN UniqueByVideoId(Tail(tracks), seen)
         ELSE <<Head(tracks)>>
              \o UniqueByVideoId(Tail(tracks), seen \cup {Head(tracks).videoId})

\* searchMusic once the retry has found r2, fewer than five tracks: the
\* playlist search found r3; the union
YouTubeCombined(r2, r3) ==
    [tracks |-> Slice(UniqueByVideoId(r2.tracks \o r3.tracks, {}), 10),
     totalResults |-> Len(UniqueByVideoId(r2.tracks \o r3.tracks, {}))]

\* searchMusic once the retry has found r2
YouTubeAfterRetry(r2, u3, input0) ==
    IF Len(r2.tracks) >= 5 THEN [threw |-> FALSE, searches |-> 2, result |-> r2]
    ELSE IF u3.status = "error" THEN [threw |-> TRUE, searches |-> 3]
    ELSE [threw |-> FALSE, searches |-> 3,
          result |-> YouTubeCombined(r2,
                         YouTubePerformSearch(u3, input0 \o " playlist mix"))]

\* searchMusic returning what the initial search found, however little
YouTubeAfterInitialNoRetry(r1, u2, u3, input0) ==
    [threw |-> FALSE, searches |-> 1, result |-> r1]

\* searchMusic once the initial search has found r1
YouTubeAfterInitial(r1, u2, u3, input0) ==
    IF Len(r1.tracks) >= 5 THEN [threw |-> FALSE, searches |-> 1, result |-> r1]
    ELSE IF u2.status = "error" THEN [threw |-> TRUE, searches |-> 2]
    ELSE YouTubeAfterRetry(YouTubePerformSearch(u2, input0), u3, input0)

\* YouTubeService.searchMusic, given the upstream answers to its (up to)
\* three searches; an answer of status "error" is a call of the API that
\* throws.  searches: how many searches were issued.
YouTubeSearchMusic(u1, u2, u3, input0) ==
    IF u1.status = "error" THEN [threw |-> TRUE, searches |-> 1]
    ELSE YouTubeAfterInitial(YouTubePerformSearch(u1, input0), u2, u3, input0)

-----------------------------------------------------------------------------
(* SoundCloudService.  An upstream track: id, title, description, genre,   *)
(* duration (ms), streamable, playback_count, artwork_url, created_at (a   *)
(* day number), username.                                                  *)

SCBadKeywords == <<"podcast", "interview", "talk", "lecture", "speech",
                   "news", "radio show", "advertisement", "commercial">>

\* SoundCloudService.isValidMusicTrack
SCIsValidMusicTrack(track) ==
    LET title == ToLowerCase(track.title)
        description == ToLowerCase(track.description)
    IN  /\ ~(track.duration < 30000 \/ track.duration > 1200000)
        /\ track.streamable
        /\ ~(SomeIncluded(title, SCBadKeywords) \/ SomeIncluded(description, SCBadKeywords))

\* searchWords.forEach(word => { if (word.length > minLen && title.includes(word)) ... })
RECURSIVE CountWordsIn(_, _, _)
CountWordsIn(words, title, minLen) ==
    IF words = <<>> THEN 0
    ELSE (IF Len(Head(words)) > minLen /\ Includes(title, Head(words)) THEN 1 ELSE 0)
             + CountWordsIn(Tail(words), title, minLen)

\* SoundCloudService.calculateTrackScore, in thousandths
SCCalculateTrackScore(track, searchContext) ==
    LET title == ToLowerCase(track.title)
        genre == ToLowerCase(track.genre)
        context == ToLowerCase(searchContext)
        durationMs == track.duration
    IN    Min(Log10Milli(track.playback_count + 1), 5000)
        + (IF genre # "" /\ Includes(context, genre) THEN 3000 ELSE 0)
        + 2000 * CountWordsIn(Split(context), title, 2)
        + (IF track.artwork_url # "" THEN 1000 ELSE 0)
        + (IF durationMs >= 180000 /\ durationMs <= 360000 THEN 2000
           ELSE IF durationMs >= 120000 /\ durationMs <= 480000 THEN 1000 ELSE 0)
        + (IF track.created_at > Clock.today - 365 THEN 1000 ELSE 0)

\* SoundCloudService.transformTrack
SCTransformTrack(track) ==
    [id |-> ToString(track.id),
     title |-> OrElse(track.title, "Unknown Title"),
     artist |-> OrElse(track.username, "Unknown Artist"),
     duration |-> track.duration \div 1000,
     thumbnail |-> track.artwork_url,
     streamUrl |-> "",
     publishedAt |-> track.created_at,
     playCount |-> track.playback_count,
     genre |-> track.genre,
     description |-> track.description,
     permalink |-> ""]

\* { ...track, score }
WithScore(track, score) ==
    [f \in DOMAIN track \cup {"score"} |-> IF f = "score" THEN score ELSE track[f]]

\* data.filter(isValidMusicTrack).map(transformTrack).map(score)
RECURSIVE SCScoredTracks(_, _)
SCScoredTracks(data, input0) ==
    IF data = <<>> THEN <<>>
    ELSE (IF ~SCIsValidMusicTrack(Head(data)) THEN <<>>
          ELSE <<WithScore(SCTransformTrack(Head(data)),
                           SCCalculateTrackScore(Head(data), input0))>>)
         \o SCScoredTracks(Tail(data), input0)

\* SoundCloudService.searchMusic: hasClientId is !!SOUNDCLOUD_CLIENT_ID, answer
\* the upstream answer, of status "error" (fetch throws or the HTTP status is
\* not ok), "notArray" (a body that is no array) or "ok" with the array.
SoundCloudSearchMusic(hasClientId, answer, input0) ==
    IF ~hasClientId \/ answer.status = "error" THEN [threw |-> TRUE]
    ELSE IF answer.status = "notArray"
         THEN [threw |-> FALSE, result |-> Found(<<>>)]
         ELSE [threw |-> FALSE,
               result |-> Found(TopTracks(SCScoredTracks(answer.items, input0)))]

-----------------------------------------------------------------------------
(* SpotifyService.  An upstream item: id, name, artists, album, release    *)
(* date (a day number, -1 when absent), genres, duration_ms, preview_url,  *)
(* popularity, and its entry of /audio-features (features, numbers in      *)
(* hundredths, tempo in BPM; NoFeatures when there is none).               *)

\* audioFeatures: undefined
NoFeatures == [undefined |-> TRUE]

Abs(x) == IF x < 0 THEN 0 - x ELSE x

\* calculateMoodScore for the audio features of a track and the parsed
\* search context, in thousandths
MoodScore(features, parsed) ==
    IF features = NoFeatures THEN 0
    ELSE   Max(0, 5000 - 100 * Abs(features.energy
                      - (IF parsed.energy = "high" THEN 80
                         ELSE IF parsed.energy = "low" THEN 30 ELSE 60)))
         + Max(0, 5000 - 100 * Abs(features.valence
                      - (IF parsed.valence = "positive" THEN 80
                         ELSE IF parsed.valence = "negative" THEN 20 ELSE 50)))
         + (IF parsed.environment \in {"party", "dance", "gym"}
                  \/ parsed.vibe \in {"energetic", "hype"}
            THEN 30 * features.danceability ELSE 0)
         + (IF parsed.environment \in {"study", "sleep", "cafe"}
                  \/ parsed.vibe \in {"chill", "calm"}
            THEN 30 * features.acousticness ELSE 0)
         + Max(0, 2000 - 20 * Abs(features.tempo
                      - (IF parsed.speed = "fast" THEN 140
                         ELSE IF parsed.speed = "slow" THEN 80 ELSE 120)))

\* SpotifyService.calculateMoodScore
SpotifyCalculateMoodScore(track, searchContext) ==
    MoodScore(track.audioFeatures, SpotifyParseInput(searchContext))

\* artists.map(a => a.name).join(', ')
RECURSIVE JoinComma(_)
JoinComma(names) ==
    IF names = <<>> THEN ""
    ELSE IF Len(names) = 1 THEN Head(names)
         ELSE Head(names) \o ", " \o JoinComma(Tail(names))

\* SpotifyService.transformTrack
SpotifyTransformTrack(item, audioFeatures) ==
    [id |-> item.id,
     title |-> OrElse(item.name, "Unknown Title"),
     artist |-> OrElse(JoinComma(item.artists), "Unknown Artist"),
     album |-> OrElse(item.album, "Unknown Album"),
     duration |-> item.duration_ms \div 1000,
     thumbnail |-> "",
     previewUrl |-> item.preview_url,
     spotifyUrl |-> "",
     popularity |-> item.popularity,
     releaseDate |-> item.release_date,
     genres |-> item.genres,
     audioFeatures |-> audioFeatures]

\* SpotifyService.getFallbackTracks
SpotifyFallbackTracks == <<
    [id |-> "fallback-1", title |-> "Blinding Lights", artist |-> "The Weeknd",
     album |-> "After Hours", duration |-> 200, thumbnail |-> "", previewUrl |-> "",
     spotifyUrl |-> "", popularity |-> 95, releaseDate |-> 18341,
     genres |-> <<"pop", "synthpop">>],
    [id |-> "fallback-2", title |-> "Good 4 U", artist |-> "Olivia Rodrigo",
     album |-> "SOUR", duration |-> 178, thumbnail |-> "", previewUrl |-> "",
     spotifyUrl |-> "", popularity |-> 92, releaseDate |-> 18761,
     genres |-> <<"pop", "pop rock">>],
    [id |-> "fallback-3", title |-> "Levitating", artist |-> "Dua Lipa",
     album |-> "Future Nostalgia", duration |-> 203, thumbnail |-> "", previewUrl |-> "",
     spotifyUrl |-> "", popularity |-> 90, releaseDate |-> 18348,
     genres |-> <<"pop", "dance pop">>],
    [id |-> "fallback-4", title |-> "Stay", artist |-> "The Kid LAROI, Justin Bieber",
     album |-> "F*CK LOVE 3: OVER YOU", duration |-> 141, thumbnail |-> "",
     previewUrl |-> "", spotifyUrl |-> "", popularity |-> 88, releaseDate |-> 18817,
     genres |-> <<"pop", "hip hop">>],
    [id |-> "fallback-5", title |-> "Heat Waves", artist |-> "Glass Animals",
     album |-> "Dreamland", duration |-> 238, thumbnail |-> "", previewUrl |-> "",
     spotifyUrl |-> "", popularity |-> 87, releaseDate |-> 18481,
     genres |-> <<"indie", "alternative">>] >>

\* arr.filter((t, i) => arr.findIndex(u => u.id === t.id) === i)
RECURSIVE UniqueById(_, _)
UniqueById(items, seen) ==
    IF items = <<>> THEN <<>>
    ELSE IF Head(items).id \in seen THEN UniqueById(Tail(items), seen)
         ELSE <<Head(items)>> \o UniqueById(Tail(items), seen \cup {Head(items).id})

\* uniqueTracks.sort(preview first): a stable partition
RECURSIVE SelectPreview(_, _)
SelectPreview(items, wanted) ==
    IF items = <<>> THEN <<>>
    ELSE (IF (Head(items).preview_url # "") = wanted THEN <<Head(items)>> ELSE <<>>)
             \o SelectPreview(Tail(items), wanted)

PreviewFirst(items) == SelectPreview(items, TRUE) \o SelectPreview(items, FALSE)

\* the loop over searchQueries: answers[i] is the upstream answer to query
\* i, of status "error" (fetch throws), "notOk" (HTTP status not ok) or "ok"
RECURSIVE SpotifyCollect(_, _, _)
SpotifyCollect(answers, i, collected) ==
    IF i > Len(answers) \/ Len(collected) >= 10 THEN collected
    ELSE SpotifyCollect(answers, i + 1,
             IF answers[i].status # "ok" THEN collected
             ELSE collected \o answers[i].items)

\* { ...track, score: calculateMoodScore(track, vibeInput) + track.popularity / 10 }
SpotifyScored(track, input0) ==
    WithScore(track, SpotifyCalculateMoodScore(track, input0) + 100 * track.popularity)

\* tracksToProcess.map(transformTrack).map(score)
RECURSIVE SpotifyScoredTracks(_, _, _)
SpotifyScoredTracks(items, featuresOk, input0) ==
    IF items = <<>> THEN <<>>
    ELSE <<SpotifyScored(
               SpotifyTransformTrack(Head(items),
                   IF featuresOk THEN Head(items).features ELSE NoFeatures),
               input0)>>
         \o SpotifyScoredTracks(Tail(items), featuresOk, input0)

\* searchMusic after the loop over the queries collected the items
SpotifyRanked(collected, featuresOk, input0) ==
    IF collected = <<>> THEN Found(<<>>)
    ELSE Found(TopTracks(SpotifyScoredTracks(
                   Slice(PreviewFirst(UniqueById(collected, {})), 20),
                   featuresOk, input0)))

\* SpotifyService.searchMusic.  tokenOk: getAccessToken returns a token (the
\* credentials are configured and the token request, if one is made,
\* succeeds); answers: the upstream answers to the five search queries;
\* featuresOk: the audio-features request succeeds.
SpotifySearchMusic(tokenOk, answers, featuresOk, input0) ==
    IF ~tokenOk
    THEN [threw |-> FALSE, fallback |-> TRUE, result |-> Found(SpotifyFallbackTracks)]
    ELSE [threw |-> FALSE, fallback |-> FALSE,
          result |-> SpotifyRanked(SpotifyCollect(answers, 1, <<>>), featuresOk, input0)]

\* the five queries of searchMusic
SpotifySearchQueries(input0) ==
    <<SpotifyBuildSearchQuery(input0), input0, SpotifyExtractGenreFromInput(input0),
      "chill music", "popular music">>

-----------------------------------------------------------------------------
(* UnifiedMusicService *)

Providers == {"youtube", "soundcloud", "spotify"}

\* UnifiedMusicService.transformYouTubeTrack
TransformYouTubeTrack(track) ==
    [id |-> track.videoId, title |-> track.title, artist |-> track.channelTitle,
     duration |-> track.duration, thumbnail |-> track.thumbnail,
     publishedAt |-> track.publishedAt, popularity |-> track.viewCount,
     provider |-> "youtube", streamUrl |-> "/api/youtube/stream/" \o track.videoId]

\* UnifiedMusicService.transformSoundCloudTrack
TransformSoundCloudTrack(track) ==
    [id |-> track.id, title |-> track.title, artist |-> track.artist,
     duration |-> track.duration, thumbnail |-> track.thumbnail,
     publishedAt |-> track.publishedAt, popularity |-> track.playCount,
     provider |-> "soundcloud", streamUrl |-> "/api/soundcloud/stream/" \o track.id,
     genre |-> track.genre, permalink |-> track.permalink]

\* UnifiedMusicService.transformSpotifyTrack
TransformSpotifyTrack(track) ==
    [id |-> track.id, title |-> track.title, artist |-> track.artist,
     duration |-> track.duration, thumbnail |-> track.thumbnail,
     publishedAt |-> track.releaseDate, popularity |-> track.popularity,
     provider |-> "spotify", streamUrl |-> track.previewUrl,
     genre |-> IF track.genres = <<>> THEN "" ELSE track.genres[1],
     permalink |-> track.spotifyUrl]

TransformTracks(provider, tracks) ==
    [i \in 1..Len(tracks) |->
        CASE provider = "youtube" -> TransformYouTubeTrack(tracks[i])
          [] provider = "soundcloud" -> TransformSoundCloudTrack(tracks[i])
          [] provider = "spotify" -> TransformSpotifyTrack(tracks[i])]

\* UnifiedMusicService.searchProvider without its try/catch: the rejection
\* of the race reaches the caller
SearchProviderUncaught(provider, outcome) ==
    IF outcome.kind # "fulfilled" THEN [threw |-> TRUE, tracks |-> <<>>]
    ELSE [threw |-> FALSE, tracks |-> TransformTracks(provider, outcome.result.tracks)]

\* UnifiedMusicService.searchProvider awaiting the adapter's promise alone:
\* what the adapter returns after the deadline is returned as well
SearchProviderAwaitsAdapter(provider, outcome) ==
    LET settled == IF outcome.kind = "timeout" THEN outcome.late ELSE outcome IN
    IF settled.kind # "fulfilled" THEN [threw |-> FALSE, tracks |-> <<>>]
    ELSE [threw |-> FALSE, tracks |-> TransformTracks(provider, settled.result.tracks)]

\* UnifiedMusicService.searchProvider, given how the race of the adapter's
\* promise against the timer ended: outcome.kind is "timeout" (the timer
\* rejected first; outcome.late is how the adapter's promise settles after
\* that), "rejected" (the adapter threw) or "fulfilled" (the adapter
\* returned outcome.result).  threw: an exception leaves searchProvider.
SearchProvider(provider, outcome) ==
    IF outcome.kind # "fulfilled" THEN [threw |-> FALSE, tracks |-> <<>>]
    ELSE [threw |-> FALSE, tracks |-> TransformTracks(provider, outcome.result.tracks)]

\* track.genre, undefined for a track without the field
GenreOf(track) == IF "genre" \in DOMAIN track THEN track.genre ELSE ""

\* UnifiedMusicService.scoreTrack, in units of 1/4200
ScoreTrack(track, searchContext) ==
    LET context == ToLowerCase(searchContext)
        title == ToLowerCase(track.title)
        logPop == Log10Milli(track.popularity + 1)
        popularityScore ==
            IF track.provider = "youtube" THEN Min(6 * logPop, 42000)
            ELSE Min(7 * logPop, 42000)
        providerScore ==
            CASE track.provider = "spotify" -> 8
              [] track.provider = "soundcloud" -> 5
              [] track.provider = "youtube" -> 3
              [] OTHER -> 1
        relevance == 3 * CountWordsIn(SplitRuns(context), title, 2)
        durationScore ==
            IF track.duration >= 180 /\ track.duration <= 360 THEN 3
            ELSE IF track.duration >= 120 /\ track.duration <= 480 THEN 2
            ELSE IF track.duration > 600 THEN 0 - 2 ELSE 0
        genreScore ==
            IF GenreOf(track) # "" /\ Includes(context, ToLowerCase(GenreOf(track)))
            THEN 4 ELSE 0
        recency ==
            IF track.publishedAt >= 0 /\ Clock.today - track.publishedAt < 360
            THEN 2 ELSE 0
    IN  popularityScore
        + 4200 * (providerScore + relevance + durationScore + genreScore + recency)

\* `${track.title.toLowerCase()}-${track.artist.toLowerCase()}`
DedupKey(track) == ToLowerCase(track.title) \o "-" \o ToLowerCase(track.artist)

\* allTracks.filter((t, i, arr) => arr.findIndex(u => key(u) === key(t)) === i)
RECURSIVE UniqueByKey(_, _)
UniqueByKey(tracks, seen) ==
    IF tracks = <<>> THEN <<>>
    ELSE IF DedupKey(Head(tracks)) \in seen THEN UniqueByKey(Tail(tracks), seen)
         ELSE <<Head(tracks)>>
              \o UniqueByKey(Tail(tracks), seen \cup {DedupKey(Head(tracks))})

\* mergeAndRankResults without the removal of duplicates
UniqueTracksKeepAll(tracks) == tracks

UniqueTracks(tracks) == UniqueByKey(tracks, {})

\* mergeAndRankResults without the slice
RankedSliceKeepAll(scoredTracks, maxResults) == scoredTracks

\* scoredTracks.slice(0, maxResults)
RankedSlice(scoredTracks, maxResults) == Slice(scoredTracks, maxResults)

\* uniqueTracks.map(track => ({ track, score: this.scoreTrack(track, searchContext) }))
ScoredItems(tracks, searchContext) ==
    [i \in 1..Len(tracks) |->
        [track |-> tracks[i], score |-> ScoreTrack(tracks[i], searchContext)]]

\* items.map(item => item.track)
ItemTracks(items) == [i \in 1..Len(items) |-> items[i].track]

\* UnifiedMusicService.mergeAndRankResults
MergeAndRankResults(tracks, searchContext, maxResults) ==
    ItemTracks(RankedSlice(SortByScore(ScoredItems(UniqueTracks(tracks), searchContext)),
                           maxResults))

\* this.defaultConfig; providers in the order of the object's keys
DefaultConfig ==
    [providers |-> <<[name |-> "spotify", enabled |-> TRUE, priority |-> 1, timeout |-> 8000],
                     [name |-> "youtube", enabled |-> TRUE, priority |-> 2, timeout |-> 15000],
                     [name |-> "soundcloud", enabled |-> FALSE, priority |-> 3, timeout |-> 10000]>>,
     maxResults |-> 10,
     fallbackEnabled |-> TRUE]

\* { ...this.defaultConfig, ...config }
MergeConfig(config) ==
    [k \in DOMAIN DefaultConfig |->
        IF k \in DOMAIN config THEN config[k] ELSE DefaultConfig[k]]

\* .sort((a, b) => a[1].priority - b[1].priority), stable
RECURSIVE InsertByPriority(_, _)
InsertByPriority(sorted, x) ==
    IF sorted = <<>> THEN <<x>>
    ELSE IF Head(sorted).priority <= x.priority
         THEN <<Head(sorted)>> \o InsertByPriority(Tail(sorted), x)
         ELSE <<x>> \o sorted

RECURSIVE SortByPriority(_, _)
SortByPriority(seq, sorted) ==
    IF seq = <<>> THEN sorted
    ELSE SortByPriority(Tail(seq), InsertByPriority(sorted, Head(seq)))

RECURSIVE EnabledOnly(_)
EnabledOnly(providers) ==
    IF providers = <<>> THEN <<>>
    ELSE (IF Head(providers).enabled THEN <<Head(providers)>> ELSE <<>>)
             \o EnabledOnly(Tail(providers))

\* the enabled providers in the order of the provider table
EnabledProvidersUnsorted(config) ==
    LET kept == EnabledOnly(config.providers)
    IN  [i \in 1..Len(kept) |-> kept[i].name]

\* the enabled providers sorted by priority
EnabledProviders(config) ==
    LET sorted == SortByPriority(EnabledOnly(config.providers), <<>>)
    IN  [i \in 1..Len(sorted) |-> sorted[i].name]

\* UnifiedMusicService.getProviderStatus(...).configured
ProviderStatus(env) == env

\* the smartConfig of UnifiedMusicService.smartSearch
SmartConfig(env) ==
    [providers |->
        <<[name |-> "soundcloud", enabled |-> ProviderStatus(env).soundcloud,
           priority |-> 1, timeout |-> 10000],
          [name |-> "youtube", enabled |-> ProviderStatus(env).youtube,
           priority |-> IF ProviderStatus(env).soundcloud THEN 2 ELSE 1,
           timeout |-> 15000],
          [name |-> "spotify", enabled |-> TRUE, priority |-> 1, timeout |-> 8000]>>,
     fallbackEnabled |-> TRUE]

-----------------------------------------------------------------------------
(* The upstream catalogs and the environment of one aggregated search *)

MaxItems == 2

\* an upstream answer without items
Failure(status) == [status |-> status]

\* the answers an upstream API can give from a catalog: its first k items
Prefixes(pool) ==
    {[status |-> "ok", items |-> SubSeq(pool, 1, k)] :
        k \in 0..Min(MaxItems, Len(pool))}

\* items of the YouTube Data API (search.list joined with videos.list)
YouTubePool == <<
    [videoId |-> "yt1", title |-> "Sad-Song", channelTitle |-> "X",
     duration |-> "PT3M20S", thumbnail |-> "", publishedAt |-> 20700,
     viewCount |-> 1000],
    [videoId |-> "yt2", title |-> "BLINDING LIGHTS", channelTitle |-> "the weeknd",
     duration |-> "PT4M", thumbnail |-> "", publishedAt |-> 18000,
     viewCount |-> 10000000],
    [videoId |-> "yt3", title |-> "sad song clip", channelTitle |-> "X",
     duration |-> "PT45S", thumbnail |-> "", publishedAt |-> 20700,
     viewCount |-> 1000] >>

\* items the third search (input + ' playlist mix') can find
YouTubePlaylistPool == <<
    [videoId |-> "yt4", title |-> "Sad Song Mix", channelTitle |-> "Sony Music",
     duration |-> "PT12M", thumbnail |-> "", publishedAt |-> 19000,
     viewCount |-> 100000],
    [videoId |-> "yt1", title |-> "Sad-Song", channelTitle |-> "X",
     duration |-> "PT3M20S", thumbnail |-> "", publishedAt |-> 20700,
     viewCount |-> 1000],
    [videoId |-> "yt5", title |-> "sad song interview", channelTitle |-> "X",
     duration |-> "PT5M", thumbnail |-> "", publishedAt |-> 20700,
     viewCount |-> 1000] >>

\* tracks of the SoundCloud API
SoundCloudPool == <<
    [id |-> 1, title |-> "Sad", description |-> "", genre |-> "sad",
     duration |-> 200000, streamable |-> TRUE, playback_count |-> 999,
     artwork_url |-> "", created_at |-> 20000, username |-> "Song-X"],
    [id |-> 2, title |-> "sad-song", description |-> "", genre |-> "",
     duration |-> 100000, streamable |-> TRUE, playback_count |-> 99999,
     artwork_url |-> "a", created_at |-> 20700, username |-> "x"],
    [id |-> 3, title |-> "Sad song podcast", description |-> "", genre |-> "",
     duration |-> 200000, streamable |-> TRUE, playback_count |-> 999,
     artwork_url |-> "", created_at |-> 20000, username |-> "x"] >>

\* items of the Spotify Web API
SpotifyPool == <<
    [id |-> "sp1", name |-> "blinding lights", artists |-> <<"The Weeknd">>,
     album |-> "After Hours", release_date |-> 18341, genres |-> <<>>,
     duration_ms |-> 200000, preview_url |-> "p1", popularity |-> 95,
     features |-> [energy |-> 73, valence |-> 33, danceability |-> 51,
                   acousticness |-> 0, tempo |-> 171]],
    [id |-> "sp2", name |-> "Sad Song", artists |-> <<"A", "B">>,
     album |-> "", release_date |-> 0 - 1, genres |-> <<>>,
     duration_ms |-> 700000, preview_url |-> "", popularity |-> 9,
     features |-> NoFeatures],
    [id |-> "sp3", name |-> "", artists |-> <<>>,
     album |-> "", release_date |-> 20700, genres |-> <<>>,
     duration_ms |-> 100000, preview_url |-> "p3", popularity |-> 0,
     features |-> [energy |-> 30, valence |-> 20, danceability |-> 10,
                   acousticness |-> 90, tempo |-> 80]] >>

\* the raw inputs of the aggregated searches
AggInputs == {"sad song"}

\* how the race in searchProvider ends for an adapter call that ended as
\* `call`
Outcome(call) ==
    IF call.threw THEN [kind |-> "rejected"]
    ELSE [kind |-> "fulfilled", result |-> call.result]

\* the ways the race of searchProvider can end for an adapter call that
\* settles in one of the ways of settled: as the call settles, or, when the
\* call waits for a request, with the timer first and the call settling
\* afterwards (late)
Raced(settled, requested) ==
    settled \cup {[kind |-> "timeout", late |-> o] : o \in settled, r \in {TRUE} \cap {requested}}

\* Every way a call of youtubeService.searchMusic can end.  Without an API
\* key every request is refused.
YouTubeOutcomes(hasKey, input0) ==
    LET answers == {Failure("error"), Failure("none")} \cup Prefixes(YouTubePool)
        playlists == {Failure("error"), Failure("none")}
                         \cup Prefixes(YouTubePlaylistPool)
    IN  Raced(IF ~hasKey
              THEN {Outcome(YouTubeSearchMusic(Failure("error"), Failure("error"),
                                               Failure("error"), input0))}
              ELSE {Outcome(YouTubeSearchMusic(u1, u2, u3, input0)) :
                       u1 \in answers, u2 \in answers, u3 \in playlists},
              TRUE)

\* Every way a call of soundcloudService.searchMusic can end.  Without a
\* client id it throws before any request, so the timer cannot win the race.
SoundCloudOutcomes(hasClientId, input0) ==
    Raced({Outcome(SoundCloudSearchMusic(hasClientId, answer, input0)) :
              answer \in {Failure("error"), Failure("notArray")}
                             \cup Prefixes(SoundCloudPool)},
          hasClientId)

\* Every way a call of spotifyService.searchMusic can end.  Without
\* credentials getAccessToken throws before any request: no token is
\* obtained and the timer cannot win the race.  The five queries get the
\* same answer.
SpotifyOutcomes(hasCredentials, input0) ==
    Raced({Outcome(SpotifySearchMusic(tokenOk, <<a, a, a, a, a>>, featuresOk, input0)) :
              tokenOk \in (IF hasCredentials THEN BOOLEAN ELSE {FALSE}),
              a \in {Failure("error"), Failure("notOk")} \cup Prefixes(SpotifyPool),
              featuresOk \in BOOLEAN},
          hasCredentials)

\* [provider][configured][input] -> the outcomes of the adapter's call
AdapterOutcomes ==
    [p \in Providers |-> [c \in BOOLEAN |-> [input0 \in AggInputs |->
        CASE p = "youtube" -> YouTubeOutcomes(c, input0)
          [] p = "soundcloud" -> SoundCloudOutcomes(c, input0)
          [] p = "spotify" -> SpotifyOutcomes(c, input0)]]]

\* the provider table of a caller's config: the providers of E enabled
ProvidersWith(E, priority) ==
    <<[name |-> "youtube", enabled |-> "youtube" \in E,
       priority |-> priority.youtube, timeout |-> 15000],
      [name |-> "soundcloud", enabled |-> "soundcloud" \in E,
       priority |-> priority.soundcloud, timeout |-> 10000],
      [name |-> "spotify", enabled |-> "spotify" \in E,
       priority |-> priority.spotify, timeout |-> 8000]>>

PriorityChoices ==
    {[youtube |-> 2, soundcloud |-> 3, spotify |-> 1],
     [youtube |-> 1, soundcloud |-> 1, spotify |-> 1]}

MaxResultsChoices == {1, 2}

\* the Partial<SearchConfig> values passed to searchMusic
CallerConfigs ==
    {[x \in {} |-> TRUE]} \cup
    {[providers |-> ProvidersWith(E, priority), maxResults |-> m,
      fallbackEnabled |-> f] :
        E \in SUBSET Providers, priority \in PriorityChoices,
        m \in MaxResultsChoices, f \in BOOLEAN}

-----------------------------------------------------------------------------
(* One call of UnifiedMusicService.searchMusic or smartSearch.  A step runs *)
(* from one await to the next.                                              *)

NoError == ""

\* the timer won the race of outcome and the adapter returned tracks later
Abandoned(outcome) ==
    /\ outcome.kind = "timeout"
    /\ outcome.late.kind = "fulfilled"
    /\ Len(outcome.late.result.tracks) > 0

\* adapterLog with one more call of provider p that ended as outcome
Logged(p, outcome) ==
    [adapterLog EXCEPT ![p] =
        IF outcome.kind = "fulfilled"
        THEN [fulfilled |-> TRUE, failed |-> @.failed, abandoned |-> @.abandoned,
              returned |-> outcome.result.tracks]
        ELSE [fulfilled |-> @.fulfilled, failed |-> TRUE,
              abandoned |-> @.abandoned \/ Abandoned(outcome),
              returned |-> @.returned]]

\* no parser is run
ParseIdle ==
    /\ pPc = "off" /\ pInput = "" /\ pIntent = <<>> /\ pQuery = "" /\ pPrevQuery = ""

\* no direct call of YouTubeService.searchMusic is made
YTIdle ==
    /\ yPc = "off" /\ yInput = "" /\ yUpstream = <<>> /\ yResult = <<>>
    /\ yFirst = <<>> /\ ySearches = 0 /\ yError = "" /\ yStatus = 0

\* no call of SpotifyService.getAccessToken is made
TokIdle ==
    /\ tPc = <<>> /\ tVia = "off" /\ tConfigured = FALSE /\ clock = 0
    /\ accessToken = <<>> /\ tokenExpiry = <<>> /\ tReply = <<>>
    /\ tLast = <<>> /\ tRequests = <<>> /\ tIssued = <<>>

\* the waiting time of the search is not recorded
WaitIdle == timed = FALSE /\ waited = 0

\* no request reaches a route
RouteIdle ==
    /\ uProvider = "" /\ uAnswer = [status |-> 0]
    /\ rlRoute = "off" /\ rlNow = 0 /\ rlStore = <<>> /\ rlLog = <<>>

\* no function is applied on its own
FnIdle == fnName = "off" /\ fnInput = <<>> /\ fnOutput = <<>>

\* nothing but the search under study runs
SvcIdle == TokIdle /\ WaitIdle /\ RouteIdle /\ FnIdle

\* the service after construction in a process whose credentials are env,
\* at position
AggStart(position, env) ==
    /\ pc = position
    /\ entry = ""
    /\ configured = env
    /\ searchConfig = DefaultConfig
    /\ vibeInput = ""
    /\ enabledProviders = <<>>
    /\ idx = 0
    /\ allTracks = <<>>
    /\ usedProviders = <<>>
    /\ pending = {}
    /\ parallelResults = <<>>
    /\ response = [error |-> NoError]
    /\ adapterLog = [p \in Providers |->
                        [fulfilled |-> FALSE, failed |-> FALSE, abandoned |-> FALSE,
                         returned |-> <<>>]]

\* the service after construction, in a process with or without credentials
AggInit == \E env \in [Providers -> BOOLEAN] : AggStart("idle", env)

\* no aggregated search is made
AggIdle == AggStart("off", [p \in Providers |-> FALSE])

Init == AggInit /\ ParseIdle /\ YTIdle /\ SvcIdle

\* { tracks: rankedTracks, totalResults: rankedTracks.length, providers }
Response(rankedTracks, used) ==
    [error |-> NoError, tracks |-> rankedTracks, totalResults |-> Len(rankedTracks),
     providers |-> used]

\* searchMusic, lines 324-338: merge, rank and return
Return(tracks, used) ==
    /\ pc' = "done"
    /\ allTracks' = tracks
    /\ usedProviders' = used
    /\ response' = Response(MergeAndRankResults(tracks, vibeInput,
                                                searchConfig.maxResults), used)

\* searchMusic after the sequential loop, lines 299-311: start the parallel
\* fallback or return
AfterLoop(tracks, used) ==
    IF Len(tracks) < 3 /\ searchConfig.fallbackEnabled /\ Len(enabledProviders) > 1
    THEN /\ pc' = "parallel"
         /\ allTracks' = tracks
         /\ usedProviders' = used
         /\ pending' = {enabledProviders[i] : i \in 1..Len(enabledProviders)}
         /\ UNCHANGED response
    ELSE /\ Return(tracks, used)
         /\ UNCHANGED pending

\* searchMusic, lines 252-266, up to the first await
Begin(name, input0, config) ==
    /\ pc = "idle"
    /\ entry' = name
    /\ vibeInput' = input0
    /\ searchConfig' = MergeConfig(config)
    /\ enabledProviders' = EnabledProviders(MergeConfig(config))
    /\ IF EnabledProviders(MergeConfig(config)) = <<>>
       THEN /\ pc' = "threw"
            /\ response' = [error |-> "No music providers enabled"]
            /\ idx' = 0
       ELSE /\ pc' = "sequential"
            /\ idx' = 1
            /\ UNCHANGED response
    /\ UNCHANGED <<configured, allTracks, usedProviders, pending, parallelResults,
                   adapterLog, parseVars, ytVars, svcVars>>

SearchMusic ==
    \E input0 \in AggInputs, config \in CallerConfigs :
        Begin("searchMusic", input0, config)

SmartSearch ==
    \E input0 \in AggInputs : Begin("smartSearch", input0, SmartConfig(configured))

\* the timeout of provider p in the provider table of the search
TimeoutOf(p) ==
    (CHOOSE c \in {searchConfig.providers[i] : i \in 1..Len(searchConfig.providers)} :
        c.name = p).timeout

\* the time the await of searchProvider lasts: the provider's timeout when
\* the timer ends the race, and the least time, none, when the adapter's
\* promise settles first
Elapsed(provider, outcome) ==
    IF timed /\ outcome.kind = "timeout" THEN TimeoutOf(provider) ELSE 0

RECURSIVE SumOfWaits(_, _)
\* the waits of the searches over the providers in ps, one after the other
SumOfWaits(results, ps) ==
    IF ps = {} THEN 0
    ELSE LET p == CHOOSE q \in ps : TRUE
         IN  results[p].elapsed + SumOfWaits(results, ps \ {p})

\* the parallel searches awaited one after the other
TotalWait(results) == SumOfWaits(results, DOMAIN results)

\* the time the await of Promise.allSettled lasts: that of the search which
\* settles last
LongestWait(results) ==
    IF DOMAIN results = {} THEN 0
    ELSE CHOOSE w \in {results[p].elapsed : p \in DOMAIN results} :
             \A p \in DOMAIN results : results[p].elapsed <= w

\* the early stop of the loop taken whether or not fallback is enabled
EnoughResultsAnyFallback(tracks, config) ==
    Len(tracks) >= config.maxResults

\* allTracks.length >= searchConfig.maxResults && !searchConfig.fallbackEnabled
EnoughResults(tracks, config) ==
    Len(tracks) >= config.maxResults /\ ~config.fallbackEnabled

\* the await of the sequential loop resumes: lines 275-296, then the next
\* iteration, or lines 299-338
SequentialSearch ==
    /\ pc = "sequential"
    /\ LET provider == enabledProviders[idx] IN
       \E outcome \in AdapterOutcomes[provider][configured[provider]][vibeInput] :
          LET found == SearchProvider(provider, outcome)
              added == ~found.threw /\ Len(found.tracks) > 0
              tracks == IF added THEN allTracks \o found.tracks ELSE allTracks
              used == IF added THEN Append(usedProviders, provider) ELSE usedProviders
              stop == added /\ EnoughResults(tracks, searchConfig)
          IN  /\ adapterLog' = Logged(provider, outcome)
              /\ waited' = waited + Elapsed(provider, outcome)
              /\ IF found.threw /\ Len(enabledProviders) = 1
                                /\ ~searchConfig.fallbackEnabled
                 THEN /\ pc' = "threw"
                      /\ response' = [error |-> provider \o " search failed"]
                      /\ UNCHANGED <<idx, allTracks, usedProviders, pending>>
                 ELSE IF stop \/ idx = Len(enabledProviders)
                      THEN /\ AfterLoop(tracks, used)
                           /\ UNCHANGED idx
                      ELSE /\ idx' = idx + 1
                           /\ allTracks' = tracks
                           /\ usedProviders' = used
                           /\ UNCHANGED <<pc, pending, response>>
    /\ UNCHANGED <<entry, configured, searchConfig, vibeInput, enabledProviders,
                   parallelResults, parseVars, ytVars, tokVars, timed, routeVars, fnVars>>

\* one searchProvider promise of the parallel fallback settles
ParallelSettle ==
    /\ pc = "parallel"
    /\ \E provider \in pending :
       \E outcome \in AdapterOutcomes[provider][configured[provider]][vibeInput] :
          LET found == SearchProvider(provider, outcome) IN
          /\ pending' = pending \ {provider}
          /\ parallelResults' =
                 [p \in DOMAIN parallelResults \cup {provider} |->
                     IF p = provider
                     THEN [status |-> IF found.threw THEN "rejected" ELSE "fulfilled",
                           value |-> found.tracks,
                           elapsed |-> Elapsed(provider, outcome)]
                     ELSE parallelResults[p]]
          /\ adapterLog' = Logged(provider, outcome)
    /\ UNCHANGED <<pc, entry, configured, searchConfig, vibeInput, enabledProviders,
                   idx, allTracks, usedProviders, response, parseVars, ytVars, svcVars>>

\* parallelResults.forEach(...) giving up at the first provider whose search
\* failed or found nothing
RECURSIVE CollectParallelUntilFailure(_, _, _, _)
CollectParallelUntilFailure(results, i, tracks, used) ==
    IF i > Len(enabledProviders) THEN [tracks |-> tracks, used |-> used]
    ELSE LET provider == enabledProviders[i]
             result == results[provider]
         IN  IF result.status # "fulfilled" \/ Len(result.value) = 0
             THEN [tracks |-> tracks, used |-> used]
             ELSE IF \A k \in 1..Len(used) : used[k] # provider
                  THEN CollectParallelUntilFailure(results, i + 1,
                           tracks \o result.value, Append(used, provider))
                  ELSE CollectParallelUntilFailure(results, i + 1, tracks, used)

\* parallelResults.forEach(...) without usedProviders.push(provider)
RECURSIVE CollectParallelUnmarked(_, _, _, _)
CollectParallelUnmarked(results, i, tracks, used) ==
    IF i > Len(enabledProviders) THEN [tracks |-> tracks, used |-> used]
    ELSE LET provider == enabledProviders[i]
             result == results[provider]
         IN  IF /\ result.status = "fulfilled"
                /\ Len(result.value) > 0
                /\ \A k \in 1..Len(used) : used[k] # provider
             THEN CollectParallelUnmarked(results, i + 1, tracks \o result.value, used)
             ELSE CollectParallelUnmarked(results, i + 1, tracks, used)

\* parallelResults.forEach(...) without the test on usedProviders
RECURSIVE CollectParallelAll(_, _, _, _)
CollectParallelAll(results, i, tracks, used) ==
    IF i > Len(enabledProviders) THEN [tracks |-> tracks, used |-> used]
    ELSE LET provider == enabledProviders[i]
             result == results[provider]
         IN  IF result.status = "fulfilled" /\ Len(result.value) > 0
             THEN CollectParallelAll(results, i + 1, tracks \o result.value,
                                     Append(used, provider))
             ELSE CollectParallelAll(results, i + 1, tracks, used)

\* parallelResults.forEach(...), lines 313-321: the state after the first i
\* providers
RECURSIVE CollectParallel(_, _, _, _)
CollectParallel(results, i, tracks, used) ==
    IF i > Len(enabledProviders) THEN [tracks |-> tracks, used |-> used]
    ELSE LET provider == enabledProviders[i]
             result == results[provider]
         IN  IF /\ result.status = "fulfilled"
                /\ Len(result.value) > 0
                /\ \A k \in 1..Len(used) : used[k] # provider
             THEN CollectParallel(results, i + 1, tracks \o result.value,
                                  Append(used, provider))
             ELSE CollectParallel(results, i + 1, tracks, used)

\* Promise.allSettled resumes: lines 313-338
ParallelDone ==
    /\ pc = "parallel"
    /\ pending = {}
    /\ LET collected == CollectParallel(parallelResults, 1, allTracks, usedProviders)
       IN  Return(collected.tracks, collected.used)
    /\ waited' = waited + LongestWait(parallelResults)
    /\ UNCHANGED <<entry, configured, searchConfig, vibeInput, enabledProviders,
                   idx, pending, parallelResults, adapterLog, parseVars, ytVars,
                   tokVars, timed, routeVars, fnVars>>

Next ==
    \/ SearchMusic
    \/ SmartSearch
    \/ SequentialSearch
    \/ ParallelSettle
    \/ ParallelDone

Spec == Init /\ [][Next]_vars

\* the same service, with the time spent in its awaits recorded
InitWait ==
    /\ \E any \in BOOLEAN : AggStart("idle", [p \in Providers |-> any])
    /\ ParseIdle /\ YTIdle /\ TokIdle /\ RouteIdle /\ FnIdle
    /\ timed = TRUE /\ waited = 0

\* the configs of the timed searches: any providers enabled, with or
\* without fallback
WaitConfigs ==
    {[providers |-> ProvidersWith(E, [youtube |-> 2, soundcloud |-> 3, spotify |-> 1]),
      maxResults |-> 10, fallbackEnabled |-> f] :
        E \in SUBSET Providers, f \in BOOLEAN}

TimedSearchMusic ==
    \E input0 \in AggInputs, config \in WaitConfigs :
        Begin("searchMusic", input0, config)

NextWait ==
    \/ TimedSearchMusic
    \/ SequentialSearch
    \/ ParallelSettle
    \/ ParallelDone

\* a started search is running
Searching == pc \in {"sequential", "parallel"}

\* the search resumes from an await
Resume == SequentialSearch \/ ParallelSettle \/ ParallelDone

\* Every await of the search is a race with a timer, or a wait for such
\* races: once the timers fire the search resumes.  The second conjunct is
\* WF_vars(Resume) with ENABLED <<Resume>>_vars written out: a running search
\* is always at an await it can resume from.
TimersFire ==
    /\ WF_vars(ParallelSettle)
    /\ []<>(~Searching) \/ []<><<Resume>>_vars

SpecWait == InitWait /\ [][NextWait]_vars /\ TimersFire

-----------------------------------------------------------------------------
(* One POST to the unified music-search route, from the request admitted   *)
(* by the rate limiter and validated to its answer.                        *)

\* body.provider of the requests
PreferredChoices == {"", "youtube", "soundcloud", "spotify"}

\* Object.entries(providerStatus).filter(([_, status]) => status.configured)
AvailableProviders(env) == {p \in Providers : ProviderStatus(env)[p]}

\* the customConfig of the route for a preferred provider
CustomConfig(preferredProvider) ==
    [providers |->
        <<[name |-> "youtube", enabled |-> preferredProvider = "youtube",
           priority |-> 1, timeout |-> 15000],
          [name |-> "soundcloud", enabled |-> preferredProvider = "soundcloud",
           priority |-> 1, timeout |-> 10000],
          [name |-> "spotify", enabled |-> FALSE, priority |-> 3, timeout |-> 8000]>>,
     fallbackEnabled |-> FALSE]

\* the answer of the route's inner catch to an error of the search
UnifiedError(message) ==
    IF Includes(message, "quota") \/ Includes(message, "429")
    THEN [status |-> 503, error |-> "API quota exceeded. Please try again later."]
    ELSE IF Includes(message, "timeout")
    THEN [status |-> 504,
          error |-> "Search timeout. Please try again with a different query."]
    ELSE IF Includes(message, "No music providers")
    THEN [status |-> 503, error |-> "No music providers available."]
    ELSE [status |-> 500, error |-> "Failed to search music. Please try again."]

\* POST from the creation of the service to the first await of the search
UnifiedPost ==
    /\ pc = "idle"
    /\ uAnswer.status = 0
    /\ \E input0 \in AggInputs :
          IF AvailableProviders(configured) = {}
          THEN /\ uAnswer' =
                      [status |-> 503,
                       error |-> "No music providers configured. Please configure at least one provider (YouTube, SoundCloud)."]
               /\ UNCHANGED <<aggVars, parseVars, ytVars, tokVars, waitVars, fnVars,
                              uProvider, rlRoute, rlNow, rlStore, rlLog>>
          ELSE IF uProvider # "" /\ uProvider \in AvailableProviders(configured)
               THEN Begin("searchMusic", input0, CustomConfig(uProvider))
               ELSE Begin("smartSearch", input0, SmartConfig(configured))

\* the await of the search resumes: the inner catch, or the answer with the
\* results
UnifiedAnswer ==
    /\ pc \in {"done", "threw"}
    /\ uAnswer.status = 0
    /\ uAnswer' = IF pc = "threw" THEN UnifiedError(response.error)
                  ELSE [status |-> 200, error |-> NoError,
                        results |-> response.tracks,
                        totalResults |-> response.totalResults,
                        providers |-> response.providers]
    /\ UNCHANGED <<aggVars, parseVars, ytVars, tokVars, waitVars, fnVars,
                   uProvider, rlRoute, rlNow, rlStore, rlLog>>

\* a validated request, with or without a preferred provider, reaches the
\* route of a process with or without credentials
InitUnified ==
    /\ AggInit /\ ParseIdle /\ YTIdle /\ TokIdle /\ WaitIdle /\ FnIdle
    /\ uProvider \in PreferredChoices
    /\ uAnswer = [status |-> 0]
    /\ rlRoute = "off" /\ rlNow = 0 /\ rlStore = <<>> /\ rlLog = <<>>

NextUnified ==
    \/ UnifiedPost
    \/ SequentialSearch
    \/ ParallelSettle
    \/ ParallelDone
    \/ UnifiedAnswer

SpecUnified == InitUnified /\ [][NextUnified]_vars

-----------------------------------------------------------------------------
(* YouTubeService.getDurationScore applied to one parsed duration.         *)

MaxDuration == 2000

\* the durations in seconds that parseDuration can return, up to the bound
Durations == 0..MaxDuration

InitDuration ==
    /\ AggIdle /\ ParseIdle /\ YTIdle /\ TokIdle /\ WaitIdle /\ RouteIdle
    /\ fnName = "getDurationScore"
    /\ fnInput \in Durations
    /\ fnOutput = <<>>

\* this.getDurationScore(duration)
ApplyDurationScore ==
    /\ fnName = "getDurationScore"
    /\ fnOutput = <<>>
    /\ fnOutput' = <<GetDurationScore(fnInput)>>
    /\ UNCHANGED <<fnName, fnInput, aggVars, parseVars, ytVars, tokVars, waitVars,
                   routeVars>>

NextDuration == ApplyDurationScore

SpecDuration == InitDuration /\ [][NextDuration]_vars

-----------------------------------------------------------------------------
(* The removal of duplicates of mergeAndRankResults applied to one list of *)
(* accumulated tracks.                                                     *)

MaxTracks == 2

\* tracks of a few titles and artists, with and without '-'
DedupTracks ==
    {[title |-> t, artist |-> a] : t \in {"a-b", "a", "A", "b"}, a \in {"c", "b-c"}}

\* the lists of accumulated tracks, up to the bound
RECURSIVE TrackLists(_)
TrackLists(n) ==
    IF n = 0 THEN {<<>>}
    ELSE TrackLists(n - 1) \cup
         {Append(l, t) : l \in {m \in TrackLists(n - 1) : Len(m) = n - 1},
                         t \in DedupTracks}

InitDedup ==
    /\ AggIdle /\ ParseIdle /\ YTIdle /\ TokIdle /\ WaitIdle /\ RouteIdle
    /\ fnName = "uniqueTracks"
    /\ fnInput \in TrackLists(MaxTracks)
    /\ fnOutput = <<>>

\* const uniqueTracks = allTracks.filter(...)
ApplyUniqueTracks ==
    /\ fnName = "uniqueTracks"
    /\ fnOutput = <<>>
    /\ fnOutput' = <<UniqueTracks(fnInput)>>
    /\ UNCHANGED <<fnName, fnInput, aggVars, parseVars, ytVars, tokVars, waitVars,
                   routeVars>>

NextDedup == ApplyUniqueTracks

SpecDedup == InitDedup /\ [][NextDedup]_vars

-----------------------------------------------------------------------------
(* The rate limiter of a route: isRateLimited on the module-level          *)
(* rateLimitStore, called first thing by every POST.                       *)

MaxTicks == 3

\* RATE_LIMIT.windowMs
WindowMs == 60 * 1000

\* RATE_LIMIT.maxRequests of the unified route and of the YouTube route
MaxRequestsOf(route) == IF route = "unified" THEN 20 ELSE 10

\* the rate-limit keys of the callers, one per IP address
Keys == {"ip1"}

\* the times of the requests: every half window
RateTimes == {k * (WindowMs \div 2) : k \in 0..MaxTicks}

\* isRateLimited(key) at time `at`: whether the request is refused, and the
\* store it leaves
IsRateLimited(store, key, at, maxRequests) ==
    IF key \notin DOMAIN store \/ at > store[key].resetTime
    THEN [limited |-> FALSE,
          store |-> [k \in DOMAIN store \cup {key} |->
                        IF k = key THEN [count |-> 1, resetTime |-> at + WindowMs]
                        ELSE store[k]]]
    ELSE IF store[key].count >= maxRequests
    THEN [limited |-> TRUE, store |-> store]
    ELSE [limited |-> FALSE,
          store |-> [store EXCEPT ![key].count = @ + 1]]

\* POST up to its first await: the request is refused with 429 or goes on
\* to the search
RateRequest(key) ==
    /\ rlRoute # "off"
    /\ \E checked \in {IsRateLimited(rlStore, key, rlNow, MaxRequestsOf(rlRoute))} :
          /\ rlStore' = checked.store
          /\ rlLog' = [admitted |->
                          IF checked.limited THEN rlLog.admitted
                          ELSE [rlLog.admitted EXCEPT ![key][rlNow] = @ + 1],
                       last |-> [key |-> key, at |-> rlNow,
                                 status |-> IF checked.limited THEN 429 ELSE 0,
                                 search |-> ~checked.limited]]
    /\ UNCHANGED <<rlRoute, rlNow, uProvider, uAnswer, aggVars, parseVars, ytVars,
                   tokVars, waitVars, fnVars>>

\* time passes
RateTick ==
    /\ rlRoute # "off"
    /\ rlNow < MaxTicks * (WindowMs \div 2)
    /\ rlNow' = rlNow + (WindowMs \div 2)
    /\ UNCHANGED <<rlRoute, rlStore, rlLog, uProvider, uAnswer, aggVars, parseVars,
                   ytVars, tokVars, waitVars, fnVars>>

\* the module of a route is loaded: the store is empty
InitRate ==
    /\ AggIdle /\ ParseIdle /\ YTIdle /\ TokIdle /\ WaitIdle /\ FnIdle
    /\ uProvider = "" /\ uAnswer = [status |-> 0]
    /\ rlRoute \in {"unified", "youtube"}
    /\ rlNow = 0
    /\ rlStore = <<>>
    /\ rlLog = [admitted |-> [k \in Keys |-> [t \in RateTimes |-> 0]],
                last |-> [key |-> "", at |-> 0, status |-> 0, search |-> FALSE]]

NextRate ==
    \/ \E key \in Keys : RateRequest(key)
    \/ RateTick

SpecRate == InitRate /\ [][NextRate]_vars

-----------------------------------------------------------------------------
(* The intent parsers and query builders, run on one raw input; the query  *)
(* of a provider is built twice, as two runs of the pipeline build it.     *)

MaxWords == 2

Vocabulary == {"energetic", "gym", "fast", "slow", "sad", "Happy", "jazz", "night"}

\* the inputs of exactly n words of the vocabulary
RECURSIVE WordStrings(_)
WordStrings(n) ==
    IF n = 1 THEN Vocabulary
    ELSE {w \o " " \o rest : w \in Vocabulary, rest \in WordStrings(n - 1)}

ParseInputs ==
    UNION {WordStrings(n) : n \in 1..MaxWords}
        \cup {"", " chill", "energetic gym workout fast", "naruto", "scary lofi"}

ParseInit ==
    /\ pPc = "idle"
    /\ pInput \in ParseInputs
    /\ pIntent = <<>>
    /\ pQuery = ""
    /\ pPrevQuery = ""

\* pPc after one more query has been built
Queried == IF pPc = "parsed" THEN "queried" ELSE "requeried"

ParseYouTube ==
    /\ pPc = "idle"
    /\ pPc' = "parsed"
    /\ pIntent' = [adapter |-> "youtube", parsed |-> YouTubeParseInput(pInput),
                   isRetry |-> FALSE]
    /\ UNCHANGED <<pInput, pQuery, pPrevQuery, aggVars, ytVars, svcVars>>

ParseSoundCloud ==
    /\ pPc = "idle"
    /\ pPc' = "parsed"
    /\ pIntent' = [adapter |-> "soundcloud", parsed |-> SoundCloudParseInput(pInput),
                   isRetry |-> FALSE]
    /\ UNCHANGED <<pInput, pQuery, pPrevQuery, aggVars, ytVars, svcVars>>

ParseSpotify ==
    /\ pPc = "idle"
    /\ pPc' = "parsed"
    /\ pIntent' = [adapter |-> "spotify", parsed |-> SpotifyParseInput(pInput),
                   isRetry |-> FALSE]
    /\ UNCHANGED <<pInput, pQuery, pPrevQuery, aggVars, ytVars, svcVars>>

\* performSearch builds its query; Math.random() is drawn twice
YouTubeQuery ==
    /\ pPc \in {"parsed", "queried"}
    /\ pIntent.adapter = "youtube"
    /\ \E isRetry \in BOOLEAN, animeTerm \in 1..Len(YTAnimeTerms),
          musicType \in YTMusicTypes :
          /\ pPc = "queried" => isRetry = pIntent.isRetry
          /\ pIntent' = [pIntent EXCEPT !.isRetry = isRetry]
          /\ pQuery' = YouTubeGenerateSearchQuery(pInput, isRetry, animeTerm, musicType)
    /\ pPrevQuery' = pQuery
    /\ pPc' = Queried
    /\ UNCHANGED <<pInput, aggVars, ytVars, svcVars>>

SoundCloudQuery ==
    /\ pPc \in {"parsed", "queried"}
    /\ pIntent.adapter = "soundcloud"
    /\ pQuery' = SoundCloudGenerateSearchQuery(pInput)
    /\ pPrevQuery' = pQuery
    /\ pPc' = Queried
    /\ UNCHANGED <<pInput, pIntent, aggVars, ytVars, svcVars>>

SpotifyQuery ==
    /\ pPc \in {"parsed", "queried"}
    /\ pIntent.adapter = "spotify"
    /\ pQuery' = SpotifyBuildSearchQuery(pInput)
    /\ pPrevQuery' = pQuery
    /\ pPc' = Queried
    /\ UNCHANGED <<pInput, pIntent, aggVars, ytVars, svcVars>>

InitParse == AggIdle /\ ParseInit /\ YTIdle /\ SvcIdle

NextParse ==
    \/ ParseYouTube
    \/ ParseSoundCloud
    \/ ParseSpotify
    \/ YouTubeQuery
    \/ SoundCloudQuery
    \/ SpotifyQuery

SpecParse == InitParse /\ [][NextParse]_vars

-----------------------------------------------------------------------------
(* One call of YouTubeService.searchMusic against the answers of the API   *)

MaxYTItems == 10

\* items of the YouTube Data API, valid and invalid ones interleaved
YTCatalog == <<
    [videoId |-> "v1", title |-> "Sad Song (Official Audio)", channelTitle |-> "Sony Music",
     duration |-> "PT3M20S", thumbnail |-> "", publishedAt |-> 20700, viewCount |-> 1000000],
    [videoId |-> "s1", title |-> "Sad Song Official Music Video", channelTitle |-> "VEVO",
     duration |-> "PT45S", thumbnail |-> "", publishedAt |-> 20700, viewCount |-> 100000000],
    [videoId |-> "v2", title |-> "Happy Gym Mix", channelTitle |-> "DJ",
     duration |-> "PT11M40S", thumbnail |-> "", publishedAt |-> 18000, viewCount |-> 1000],
    [videoId |-> "l1", title |-> "Sad Song extended", channelTitle |-> "DJ",
     duration |-> "PT11M40S", thumbnail |-> "", publishedAt |-> 18000, viewCount |-> 1000000],
    [videoId |-> "v3", title |-> "happy song", channelTitle |-> "",
     duration |-> "PT1M", thumbnail |-> "", publishedAt |-> 20000, viewCount |-> 100],
    [videoId |-> "l2", title |-> "Sad Song Compilation", channelTitle |-> "Sony Music",
     duration |-> "PT31M40S", thumbnail |-> "", publishedAt |-> 20700, viewCount |-> 1000000],
    [videoId |-> "v4", title |-> "SAD PLAYLIST", channelTitle |-> "Topic",
     duration |-> "PT30M", thumbnail |-> "", publishedAt |-> 20700, viewCount |-> 10000],
    [videoId |-> "v5", title |-> "", channelTitle |-> "X",
     duration |-> "PT10M", thumbnail |-> "", publishedAt |-> 19000, viewCount |-> 1000],
    [videoId |-> "f1", title |-> "Sad Song", channelTitle |-> "Sony Music",
     duration |-> "PT3M20S", thumbnail |-> "", publishedAt |-> 20700, viewCount |-> 10],
    [videoId |-> "v6", title |-> "Gym song", channelTitle |-> "Y",
     duration |-> "PT1H", thumbnail |-> "", publishedAt |-> 20700, viewCount |-> 1000],
    [videoId |-> "b1", title |-> "Sad Song REACTION", channelTitle |-> "Sony Music",
     duration |-> "PT3M20S", thumbnail |-> "", publishedAt |-> 20700, viewCount |-> 1000000],
    [videoId |-> "", title |-> "Sad Song", channelTitle |-> "Sony Music",
     duration |-> "PT3M20S", thumbnail |-> "", publishedAt |-> 20700, viewCount |-> 1000000] >>

\* items the search for input + ' playlist mix' can find
YTPlaylistCatalog == <<
    [videoId |-> "p1", title |-> "Sad Mix", channelTitle |-> "Z",
     duration |-> "PT20M", thumbnail |-> "", publishedAt |-> 20700, viewCount |-> 1000],
    [videoId |-> "v1", title |-> "Sad Song (Official Audio)", channelTitle |-> "Sony Music",
     duration |-> "PT3M20S", thumbnail |-> "", publishedAt |-> 20700, viewCount |-> 1000000],
    [videoId |-> "p2", title |-> "Sad Song lesson", channelTitle |-> "Z",
     duration |-> "PT3M", thumbnail |-> "", publishedAt |-> 20700, viewCount |-> 1000],
    [videoId |-> "p3", title |-> "Sad Song", channelTitle |-> "Z",
     duration |-> "", thumbnail |-> "", publishedAt |-> 20700, viewCount |-> 0],
    [videoId |-> "p4", title |-> "Sad Mix 4", channelTitle |-> "Z",
     duration |-> "PT24M", thumbnail |-> "", publishedAt |-> 20700, viewCount |-> 1000],
    [videoId |-> "p5", title |-> "Sad Mix 5", channelTitle |-> "Z",
     duration |-> "PT25M", thumbnail |-> "", publishedAt |-> 20700, viewCount |-> 1000],
    [videoId |-> "p6", title |-> "Sad Mix 6", channelTitle |-> "Z",
     duration |-> "PT26M", thumbnail |-> "", publishedAt |-> 20700, viewCount |-> 1000],
    [videoId |-> "p7", title |-> "Sad Mix 7", channelTitle |-> "Z",
     duration |-> "PT27M", thumbnail |-> "", publishedAt |-> 20700, viewCount |-> 1000],
    [videoId |-> "p8", title |-> "Sad Mix 8", channelTitle |-> "Z",
     duration |-> "PT28M", thumbnail |-> "", publishedAt |-> 20700, viewCount |-> 1000],
    [videoId |-> "p9", title |-> "Sad Mix 9", channelTitle |-> "Z",
     duration |-> "PT29M", thumbnail |-> "", publishedAt |-> 20700, viewCount |-> 1000] >>

YTPrefixes(catalog) ==
    {[status |-> "ok", items |-> SubSeq(catalog, 1, k)] :
        k \in 0..Min(MaxYTItems, Len(catalog))}

YTAnswers == {Failure("error"), Failure("none")} \cup YTPrefixes(YTCatalog)

YTPlaylistAnswers == {Failure("error"), Failure("none")} \cup YTPrefixes(YTPlaylistCatalog)

YTInputs == {"sad song", "Happy gym"}

\* before the call: the input and the answers the API will give to the
\* first search, the retry and the playlist search
YTInit ==
    /\ yPc = "idle"
    /\ yInput \in YTInputs
    /\ yUpstream \in {<<u1, u2, u3>> :
                         u1 \in YTAnswers, u2 \in YTAnswers, u3 \in YTPlaylistAnswers}
    /\ yResult = <<>>
    /\ yFirst = <<>>
    /\ ySearches = 0
    /\ yError = ""
    /\ yStatus = 0

\* the catch of YouTubeService.searchMusic, lines 598-601: what it throws
\* when a search failed with cause
YouTubeRethrown(cause) == "Failed to search YouTube videos"

\* YouTubeService.searchMusic runs to its return or throw
YouTubeSearch ==
    /\ yPc = "idle"
    /\ \E call \in {YouTubeSearchMusic(yUpstream[1], yUpstream[2], yUpstream[3], yInput)} :
          /\ yPc' = IF call.threw THEN "threw" ELSE "done"
          /\ yResult' = IF call.threw THEN <<>> ELSE call.result.tracks
          /\ ySearches' = call.searches
          /\ yError' = IF call.threw THEN YouTubeRethrown(yUpstream[call.searches])
                        ELSE ""
    /\ yFirst' = IF yUpstream[1].status = "error" THEN <<>>
                 ELSE YouTubePerformSearch(yUpstream[1], yInput).tracks
    /\ UNCHANGED <<yInput, yUpstream, yStatus, aggVars, parseVars, svcVars>>

InitYT == AggIdle /\ ParseIdle /\ YTInit /\ SvcIdle

NextYT == YouTubeSearch

SpecYT == InitYT /\ [][NextYT]_vars

-----------------------------------------------------------------------------
(* The POST handler of the YouTube search route, from its call of          *)
(* youtubeService.searchMusic on: the request passed the rate limit and    *)
(* the validation, and an API key is configured.                           *)

\* the ways a request to the YouTube API fails, with the message of the
\* error the client library raises
UpstreamErrors ==
    {[status |-> "error", kind |-> "quota",
      message |-> "The request cannot be completed because you have exceeded your quota."],
     [status |-> "error", kind |-> "authFailed",
      message |-> "API key not valid. Please pass a valid API key."],
     [status |-> "error", kind |-> "timeout",
      message |-> "network timeout at: https://www.googleapis.com/youtube/v3/search"],
     [status |-> "error", kind |-> "unknown", message |-> "Backend Error"]}

\* the status of the answer to an error of searchMusic, route.ts lines 126-150
RouteStatus(message) ==
    IF Includes(message, "quota") THEN 503
    ELSE IF Includes(message, "timeout") THEN 504
    ELSE 500

\* the await of searchMusic in the handler resumes: lines 124-161
RouteAnswer ==
    /\ yPc \in {"done", "threw"}
    /\ yPc' = "answered"
    /\ yStatus' = IF yPc = "threw" THEN RouteStatus(yError) ELSE 200
    /\ UNCHANGED <<yInput, yUpstream, yResult, yFirst, ySearches, yError,
                   aggVars, parseVars, svcVars>>

InitRoute ==
    /\ AggIdle /\ ParseIdle /\ SvcIdle
    /\ yPc = "idle"
    /\ yInput \in YTInputs
    /\ \E answers \in {UpstreamErrors \cup
                            {Failure("none"),
                             [status |-> "ok", items |-> SubSeq(YTCatalog, 1, 3)],
                             [status |-> "ok", items |-> YTCatalog]}} :
          yUpstream \in {<<u1, u2, u3>> : u1 \in answers, u2 \in answers, u3 \in answers}
    /\ yResult = <<>>
    /\ yFirst = <<>>
    /\ ySearches = 0
    /\ yError = ""
    /\ yStatus = 0

NextRoute ==
    \/ YouTubeSearch
    \/ RouteAnswer

SpecRoute == InitRoute /\ [][NextRoute]_vars

-----------------------------------------------------------------------------
(* SpotifyService.getAccessToken, called by calls that run concurrently.   *)
(* A step runs from one await to the next; time passes between steps.      *)

\* the clock runs for MaxTime steps of 30 seconds
MaxTime == 3

\* at most MaxTokenRequests token requests are sent
MaxTokenRequests == 2

\* two calls, which may run concurrently
Calls == {1, 2}

\* the SpotifyService a call runs on.  The music-search route constructs a
\* UnifiedMusicService, and with it a SpotifyService, for each request; the
\* calls of one search (the sequential and the parallel search of the
\* provider, the five queries) run on the same one.
ServiceOf(call, via) == IF via = "request" THEN call ELSE 1

\* this.accessToken && Date.now() < this.tokenExpiry
CachedAnyAge(token, expiry, at) == token # 0

CachedValid(token, expiry, at) == token # 0 /\ at < expiry

\* Date.now() + (data.expires_in * 1000) - 60000
NewExpiry(at, expiresIn) == at + (expiresIn * 1000) - 60000

\* the cache entry written from a token response at time at, keeping the
\* later of the old and the new expiry
StoredKeepingLaterExpiry(expiry, reply, at) ==
    [token |-> reply.access_token,
     expiry |-> Max(expiry, NewExpiry(at, reply.expires_in))]

\* this.accessToken = data.access_token; this.tokenExpiry = ...
Stored(expiry, reply, at) ==
    [token |-> reply.access_token, expiry |-> NewExpiry(at, reply.expires_in)]

\* the expires_in of a token response, in seconds
ExpiresInChoices == {60, 90, 120}

TokInit ==
    /\ tPc = [c \in Calls |-> "idle"]
    /\ tVia \in {"request", "search"}
    /\ tConfigured \in BOOLEAN
    /\ clock = 0
    /\ accessToken = [s \in Calls |-> 0]
    /\ tokenExpiry = [s \in Calls |-> 0]
    /\ tReply = [c \in Calls |-> <<>>]
    /\ tLast = [c \in Calls |-> [how |-> "none"]]
    /\ tRequests = <<>>
    /\ tIssued = <<>>

\* getAccessToken up to its return, its throw or the await of fetch
GetAccessToken(c) ==
    /\ tPc[c] = "idle"
    /\ LET s == ServiceOf(c, tVia) IN
       IF CachedValid(accessToken[s], tokenExpiry[s], clock)
       THEN /\ tLast' = [tLast EXCEPT ![c] = [how |-> "cached", at |-> clock,
                                              token |-> accessToken[s]]]
            /\ UNCHANGED <<tPc, tRequests>>
       ELSE IF ~tConfigured
       THEN /\ tLast' = [tLast EXCEPT ![c] =
                            [how |-> "threw",
                             error |-> "Spotify credentials not configured"]]
            /\ UNCHANGED <<tPc, tRequests>>
       ELSE /\ Len(tRequests) < MaxTokenRequests
            /\ tPc' = [tPc EXCEPT ![c] = "fetching"]
            /\ tRequests' = Append(tRequests,
                   [call |-> c, service |-> s, at |-> clock,
                    cached |-> accessToken[s] # 0 /\ clock < tokenExpiry[s]])
            /\ tLast' = [tLast EXCEPT ![c] = [how |-> "waiting",
                                              request |-> Len(tRequests) + 1]]
    /\ UNCHANGED <<tVia, tConfigured, clock, accessToken, tokenExpiry, tReply, tIssued,
                   aggVars, parseVars, ytVars, waitVars, routeVars, fnVars>>

\* the await of fetch resumes: a rejection or a response that is not ok
\* ends in the catch, an ok response goes on to await response.json()
FetchSettles(c) ==
    /\ tPc[c] = "fetching"
    /\ \/ /\ tPc' = [tPc EXCEPT ![c] = "idle"]
          /\ tLast' = [tLast EXCEPT ![c] =
                          [how |-> "threw",
                           error |-> "Failed to authenticate with Spotify"]]
          /\ UNCHANGED tReply
       \/ \E expiresIn \in ExpiresInChoices :
             /\ tPc' = [tPc EXCEPT ![c] = "parsing"]
             /\ tReply' = [tReply EXCEPT ![c] =
                              [access_token |-> tLast[c].request,
                               expires_in |-> expiresIn]]
             /\ UNCHANGED tLast
    /\ UNCHANGED <<tVia, tConfigured, clock, accessToken, tokenExpiry, tRequests, tIssued,
                   aggVars, parseVars, ytVars, waitVars, routeVars, fnVars>>

\* the await of response.json() resumes: the token and its expiry are stored
\* and the token is returned
JsonSettles(c) ==
    /\ tPc[c] = "parsing"
    /\ LET s == ServiceOf(c, tVia)
           entry0 == Stored(tokenExpiry[s], tReply[c], clock)
       IN  /\ accessToken' = [accessToken EXCEPT ![s] = entry0.token]
           /\ tokenExpiry' = [tokenExpiry EXCEPT ![s] = entry0.expiry]
           /\ tLast' = [tLast EXCEPT ![c] = [how |-> "fetched", at |-> clock,
                                             token |-> entry0.token]]
           /\ tIssued' = [t \in DOMAIN tIssued \cup {tReply[c].access_token} |->
                             IF t = tReply[c].access_token
                             THEN [expiresIn |-> tReply[c].expires_in, storedAt |-> clock,
                                   service |-> s]
                             ELSE tIssued[t]]
    /\ tPc' = [tPc EXCEPT ![c] = "idle"]
    /\ tReply' = [tReply EXCEPT ![c] = <<>>]
    /\ UNCHANGED <<tVia, tConfigured, clock, tRequests, aggVars, parseVars, ytVars,
                   waitVars, routeVars, fnVars>>

\* 30 seconds pass
Tick ==
    /\ tVia # "off"
    /\ clock < MaxTime * 30000
    /\ clock' = clock + 30000
    /\ UNCHANGED <<tPc, tVia, tConfigured, accessToken, tokenExpiry, tReply, tLast,
                   tRequests, tIssued, aggVars, parseVars, ytVars, waitVars, routeVars, fnVars>>

InitToken ==
    AggIdle /\ ParseIdle /\ YTIdle /\ TokInit /\ WaitIdle /\ RouteIdle /\ FnIdle

NextToken ==
    \/ \E c \in Calls : GetAccessToken(c)
    \/ \E c \in Calls : FetchSettles(c)
    \/ \E c \in Calls : JsonSettles(c)
    \/ Tick

SpecToken == InitToken /\ [][NextToken]_vars

-----------------------------------------------------------------------------
(* The three together: an aggregated search, a run of the parsers, or a    *)
(* direct call of the YouTube adapter.                                     *)

InitAll == Init \/ InitParse \/ InitYT

NextAll ==
    \/ Next
    \/ NextParse
    \/ NextYT

SpecAll == InitAll /\ [][NextAll]_vars

-----------------------------------------------------------------------------
(* Properties of the aggregated search                                      *)

\* the case-insensitive (title, artist) pair of a track
Pair(track) == <<ToLowerCase(track.title), ToLowerCase(track.artist)>>

EnabledSet == {enabledProviders[i] : i \in 1..Len(enabledProviders)}

\* every search of provider p that has settled failed
OnlyFailed(p) == adapterLog[p].failed /\ ~adapterLog[p].fulfilled

\* every search of provider p that has settled succeeded
OnlyFulfilled(p) == adapterLog[p].fulfilled /\ ~adapterLog[p].failed

NoneConfigured == \A p \in Providers : ~configured[p]

\* C1: a call of searchMusic that returns gives at most maxResults tracks,
\* whatever the providers returned and whichever phases ran; maxResults is 10
\* when the caller gives none, as smartSearch does.
C1_BoundedOutput ==
    pc = "done" =>
        /\ Len(response.tracks) <= searchConfig.maxResults
        /\ entry = "smartSearch" => Len(response.tracks) <= 10

\* C1: a call returns exactly maxResults tracks out of more distinct ones
C1_Truncated ==
    /\ pc = "done"
    /\ Len(UniqueTracks(allTracks)) > searchConfig.maxResults
    /\ Len(response.tracks) = searchConfig.maxResults

C3_PartialFailure ==
    /\ pc = "threw" => enabledProviders = <<>>
    /\ pc = "done" =>
          /\ \A k \in 1..Len(response.tracks) :
                adapterLog[response.tracks[k].provider].fulfilled
          /\ \A k \in 1..Len(response.providers) :
                /\ adapterLog[response.providers[k]].fulfilled
                /\ ~OnlyFailed(response.providers[k])

\* C3: of three enabled providers one failed and the two others are the
\* providers of the returned tracks
C3_OneFailedOthersReturned ==
    /\ pc = "done"
    /\ Len(enabledProviders) = 3
    /\ \E p \in EnabledSet :
          /\ OnlyFailed(p)
          /\ {response.providers[k] : k \in 1..Len(response.providers)}
                 = EnabledSet \ {p}
          /\ {response.tracks[k].provider : k \in 1..Len(response.tracks)}
                 = EnabledSet \ {p}

\* C4: when no provider has credentials, searchMusic and smartSearch end
\* with the error of no provider being available, never with a response.
C4_TotalFailureSignalled ==
    (NoneConfigured /\ pc \in {"done", "threw"}) =>
        /\ pc = "threw"
        /\ response.error = "No music providers enabled"

\* the response of a search in which every provider succeeded with no track
EmptySuccess == Response(<<>>, <<>>)

\* C5: the response of a search in which every enabled provider failed
\* differs from the response of one in which every enabled provider
\* succeeded with zero tracks.
C5_FailureDistinguishable ==
    (/\ pc \in {"done", "threw"}
     /\ enabledProviders # <<>>
     /\ \A p \in EnabledSet : OnlyFailed(p)) => response # EmptySuccess

\* C5: every enabled provider succeeded with zero tracks
C5_AllEmptySuccess ==
    /\ pc = "done"
    /\ \A p \in EnabledSet : OnlyFulfilled(p)
    /\ allTracks = <<>>
    /\ response = EmptySuccess

NoScore(tracks) == \A i \in 1..Len(tracks) : "score" \notin DOMAIN tracks[i]

\* C6: no track of a list returned by an adapter's searchMusic (YouTube after
\* one, two or three searches, SoundCloud, Spotify with or without its
\* fallback) or by the aggregator's searchMusic has a score field.
C6_NoScoreLeak ==
    /\ \A p \in Providers : NoScore(adapterLog[p].returned)
    /\ pc = "done" => NoScore(response.tracks)
    /\ NoScore(yResult)
    /\ NoScore(yFirst)

\* C6: the three adapters each returned tracks and the aggregator did
C6_AllReturned ==
    /\ pc = "done"
    /\ \A p \in Providers : adapterLog[p].returned # <<>>
    /\ response.tracks # <<>>

-----------------------------------------------------------------------------
(* Properties of the parsers and query builders                             *)

\* C7: two runs of the pipeline on the same input build the same query for
\* the provider; no step depends on randomness.
C7_SameQueries == pPc = "requeried" => pQuery = pPrevQuery

\* the keyword tables of an adapter's parseInput
EnvironmentTable(adapter) ==
    IF adapter = "spotify" THEN SpotifyEnvironments ELSE YTEnvironments

SpeedTable(adapter) ==
    IF adapter = "spotify" THEN SpotifySpeedPatterns ELSE YTSpeeds

VibeTable(adapter) ==
    IF adapter = "spotify" THEN SpotifyVibePatterns ELSE YTVibes

\* the categories of a table with a keyword that the lower-cased input holds
Hits(input0, table) ==
    {i \in 1..Len(table) :
        \E k \in 1..Len(table[i].keywords) :
            Includes(ToLowerCase(input0), table[i].keywords[k])}

\* value is the name of the first category of the table, in declared order,
\* with a keyword in the input, and default when there is none
FirstMatch(value, input0, table, default) ==
    IF Hits(input0, table) = {} THEN value = default
    ELSE \E i \in Hits(input0, table) :
            /\ \A j \in Hits(input0, table) : i <= j
            /\ value = table[i].name

\* the fields of the ParsedInput of an adapter
IntentFields(adapter) ==
    CASE adapter = "youtube" -> {"vibe", "environment", "speed", "isAnime", "genre"}
      [] adapter = "soundcloud" -> {"vibe", "environment", "speed", "genre"}
      [] adapter = "spotify" ->
             {"vibe", "environment", "speed", "energy", "valence", "genre"}

\* the lower-cased input holds none of the words
NoneOf(input0, words) == \A w \in words : ~Includes(ToLowerCase(input0), w)

\* C8 as stated: each adapter's intent has every field of the data model,
\* and a field without a match has its default: environment and genre "",
\* speed "medium".
C8_TotalIntentAsStated ==
    pPc = "parsed" =>
        /\ {"vibe", "environment", "speed", "energy", "valence", "genre"}
               \subseteq DOMAIN pIntent.parsed
        /\ Hits(pInput, EnvironmentTable(pIntent.adapter)) = {}
               => pIntent.parsed.environment = ""
        /\ Hits(pInput, SpeedTable(pIntent.adapter)) = {}
               => pIntent.parsed.speed = "medium"

\* C8, amended: for every input each adapter's intent has exactly the fields
\* of that adapter's ParsedInput, each with a value; without a match
\* environment is "", vibe is the first word of the input and speed is
\* "medium" in the Spotify adapter and "" in the YouTube and SoundCloud
\* adapters; genre is "" when the input holds no genre word; energy and
\* valence exist in the Spotify adapter only.
C8_TotalIntent ==
    pPc = "parsed" =>
        /\ DOMAIN pIntent.parsed = IntentFields(pIntent.adapter)
        /\ \A f \in DOMAIN pIntent.parsed \ {"isAnime"} :
              pIntent.parsed[f] \in STRING /\ pIntent.parsed[f] # "undefined"
        /\ Hits(pInput, EnvironmentTable(pIntent.adapter)) = {}
               => pIntent.parsed.environment = ""
        /\ Hits(pInput, SpeedTable(pIntent.adapter)) = {}
               => pIntent.parsed.speed =
                      (IF pIntent.adapter = "spotify" THEN "medium" ELSE "")
        /\ Hits(pInput, VibeTable(pIntent.adapter)) = {}
               => pIntent.parsed.vibe = FirstWord(pInput)
        /\ pIntent.adapter = "spotify" =>
              /\ Hits(pInput, SpotifyGenreKeywords) = {} => pIntent.parsed.genre = ""
              /\ pIntent.parsed.energy \in {"low", "medium", "high"}
              /\ pIntent.parsed.valence \in {"negative", "neutral", "positive"}
        /\ pIntent.adapter = "youtube" =>
              /\ pIntent.parsed.isAnime \in BOOLEAN
              /\ (/\ NoneOf(pInput, {"lofi", "edm", "electronic"})
                  /\ ~pIntent.parsed.isAnime
                  /\ ~(pIntent.parsed.vibe = "chill"
                          /\ pIntent.parsed.environment = "study"))
                     => pIntent.parsed.genre = ""
        /\ pIntent.adapter = "soundcloud" =>
              /\ (/\ NoneOf(pInput, {"lofi", "edm", "electronic", "hip hop", "rap",
                                     "jazz", "rock"})
                  /\ ~(pIntent.parsed.vibe = "chill"
                          /\ pIntent.parsed.environment = "study"))
                     => pIntent.parsed.genre = ""

\* C8: the YouTube parser has parsed the empty string: no speed
C8_EmptyInputParsed ==
    /\ pPc = "parsed"
    /\ pInput = ""
    /\ pIntent.adapter = "youtube"
    /\ pIntent.parsed.speed = ""
    /\ pIntent.parsed.vibe = ""

\* C9: in every adapter, environment, speed and vibe (and the genre of the
\* Spotify adapter) are the first category of their table, in declared
\* order, with a keyword that is a substring of the lower-cased input,
\* wherever the keywords stand in the input; energy and valence follow from
\* speed and vibe; "energetic gym workout fast" gives gym, fast, energetic,
\* high and positive.
C9_FirstMatchWins ==
    pPc = "parsed" =>
        /\ FirstMatch(pIntent.parsed.environment, pInput,
                      EnvironmentTable(pIntent.adapter), "")
        /\ FirstMatch(pIntent.parsed.speed, pInput, SpeedTable(pIntent.adapter),
                      IF pIntent.adapter = "spotify" THEN "medium" ELSE "")
        /\ FirstMatch(pIntent.parsed.vibe, pInput, VibeTable(pIntent.adapter),
                      FirstWord(pInput))
        /\ pIntent.adapter = "spotify" =>
              /\ FirstMatch(pIntent.parsed.genre, pInput, SpotifyGenreKeywords, "")
              /\ pIntent.parsed.energy =
                     (CASE pIntent.parsed.speed = "fast" -> "high"
                        [] pIntent.parsed.speed = "slow" -> "low"
                        [] OTHER -> "medium")
              /\ pIntent.parsed.valence =
                     (CASE pIntent.parsed.vibe \in {"sad", "dark"} -> "negative"
                        [] pIntent.parsed.vibe \in {"happy", "energetic"} -> "positive"
                        [] OTHER -> "neutral")
        /\ pInput = "energetic gym workout fast" =>
              /\ pIntent.parsed.environment = "gym"
              /\ pIntent.parsed.speed = "fast"
              /\ pIntent.parsed.vibe = "energetic"
              /\ pIntent.adapter = "spotify" =>
                    /\ pIntent.parsed.energy = "high"
                    /\ pIntent.parsed.valence = "positive"

\* C9: the Spotify parser has parsed an input whose keyword of the later
\* category comes first: the earlier category is selected
C9_LaterKeywordFirst ==
    /\ pPc = "parsed"
    /\ pIntent.adapter = "spotify"
    /\ pInput = "fast slow"
    /\ pIntent.parsed.speed = "slow"
    /\ pIntent.parsed.energy = "low"

-----------------------------------------------------------------------------
(* Properties of the YouTube adapter                                        *)

\* C10: every track that YouTubeService.searchMusic returns, after one, two
\* or three searches, lasts at least 60 and at most 1800 seconds, lasts more
\* than 600 seconds only with 'playlist', 'mix' or 'compilation' in its
\* title, has at least 100 views and no blacklisted term in its title.
C10_ValidityFilter ==
    yPc = "done" =>
        \A i \in 1..Len(yResult) :
            /\ yResult[i].duration >= 60
            /\ yResult[i].duration <= 1800
            /\ yResult[i].duration > 600 =>
                  \E w \in {"playlist", "mix", "compilation"} :
                      Includes(ToLowerCase(yResult[i].title), w)
            /\ yResult[i].viewCount >= 100
            /\ \A k \in 1..Len(YTBadKeywords) :
                  ~Includes(ToLowerCase(yResult[i].title), YTBadKeywords[k])

\* C10: the retry found the 45-second video of the most views among its
\* items; the call returns tracks, and not that one
C10_ShortClipExcluded ==
    /\ yPc = "done"
    /\ ySearches = 3
    /\ yUpstream[2].status = "ok"
    /\ \E k \in 1..Len(yUpstream[2].items) : yUpstream[2].items[k].videoId = "s1"
    /\ yResult # <<>>
    /\ \A i \in 1..Len(yResult) : yResult[i].videoId # "s1"

\* the video ids of a list of tracks
VideoIds(tracks) == {tracks[i].videoId : i \in 1..Len(tracks)}

\* the tracks that the retry of the call finds, when its search answers
RetryTracks == YouTubePerformSearch(yUpstream[2], yInput).tracks

\* the tracks that the 'playlist mix' search of the call finds
PlaylistTracks == YouTubePerformSearch(yUpstream[3], yInput \o " playlist mix").tracks

\* result is the union of the lists retry and playlist, without duplicate
\* video ids and of at most 10 tracks
IsUnionOf(result, retry, playlist) ==
    /\ Len(result) <= 10
    /\ \A i, j \in 1..Len(result) : i # j => result[i].videoId # result[j].videoId
    /\ VideoIds(result) \subseteq VideoIds(retry) \cup VideoIds(playlist)
    /\ Len(result) < 10 => VideoIds(result) = VideoIds(retry) \cup VideoIds(playlist)
    /\ \A i \in 1..Len(result) :
          \E k \in 1..Len(retry \o playlist) : result[i] = (retry \o playlist)[k]

\* what the call did after a first search that found too little, retry
\* being what the second search found
RetriedAsStated(retry) ==
    /\ Len(retry) >= 5 => yPc = "done" /\ ySearches = 2 /\ yResult = retry
    /\ Len(retry) < 5 => ySearches = 3

\* C11: when the first search of YouTubeService.searchMusic finds fewer than
\* 5 valid tracks a second search is issued before the call ends; when that
\* one also finds fewer than 5 a third is issued and the response is the
\* union of the second and third result, without duplicate video ids and of
\* at most 10 tracks; when the first finds 5 or more no other search is
\* issued and its result is the response.
C11_RetryOnLowResults ==
    /\ (yPc \in {"done", "threw"} /\ yUpstream[1].status # "error") =>
          /\ Len(yFirst) >= 5 =>
                yPc = "done" /\ ySearches = 1 /\ yResult = yFirst
          /\ Len(yFirst) < 5 => ySearches >= 2
          /\ (Len(yFirst) < 5 /\ yUpstream[2].status # "error") =>
                \E retry \in {RetryTracks} : RetriedAsStated(retry)
    /\ (yPc = "done" /\ ySearches = 3) =>
          \E retry \in {RetryTracks}, playlist \in {PlaylistTracks} :
              IsUnionOf(yResult, retry, playlist)

\* C11: the first search found 2 valid tracks, the retry 3, and the playlist
\* search one of them again and another one: the response is their union
C11_TwoThenRetryThenUnion ==
    /\ yPc = "done"
    /\ Len(yFirst) = 2
    /\ ySearches = 3
    /\ Len(RetryTracks) = 3
    /\ VideoIds(RetryTracks) \cap VideoIds(PlaylistTracks) # {}
    /\ Len(yResult) = 4

\* C11: the retry and the playlist search found more than 10 tracks together
C11_UnionTruncated ==
    /\ yPc = "done"
    /\ ySearches = 3
    /\ Cardinality(VideoIds(RetryTracks) \cup VideoIds(PlaylistTracks)) > 10

\* the entry of provider p in the provider table of the search
ConfigOf(p) ==
    CHOOSE c \in {searchConfig.providers[i] : i \in 1..Len(searchConfig.providers)} :
        c.name = p

\* a call of the adapter of provider p has settled or timed out
Invoked(p) == adapterLog[p].fulfilled \/ adapterLog[p].failed

\* C12: in the sequential phase the enabled providers are invoked one after
\* the other in ascending priority: the providers whose call has ended are
\* those before the current one in that order, only the current one has a
\* call in flight, and a disabled provider is never invoked in any phase.
C12_SequentialOrder ==
    /\ \A p \in Providers : Invoked(p) => ConfigOf(p).enabled
    /\ pc \in {"sequential", "parallel", "done"} =>
          /\ EnabledSet = {p \in Providers : ConfigOf(p).enabled}
          /\ \A i, j \in 1..Len(enabledProviders) :
                i < j => /\ enabledProviders[i] # enabledProviders[j]
                         /\ ConfigOf(enabledProviders[i]).priority
                                <= ConfigOf(enabledProviders[j]).priority
    /\ pc = "sequential" =>
          /\ idx \in 1..Len(enabledProviders)
          /\ pending = {}
          /\ \A p \in Providers :
                Invoked(p) <=> \E k \in 1..(idx - 1) : enabledProviders[k] = p

\* C12: three providers are enabled, their priority order differs from the
\* order of the provider table, and the first two have been searched
C12_ThirdInPriorityOrder ==
    /\ pc = "sequential"
    /\ idx = 3
    /\ enabledProviders = <<"spotify", "youtube", "soundcloud">>
    /\ searchConfig.providers[1].name = "youtube"
    /\ Invoked("spotify") /\ Invoked("youtube") /\ ~Invoked("soundcloud")

\* C13: a provider whose adapter call did not settle before the provider's
\* timeout yields no tracks for that attempt: as long as no call of the
\* provider has returned in time, it is not marked as contributed and none
\* of its tracks is accumulated or returned, also when its adapter returned
\* tracks after the deadline.
C13_TimeoutAbandonment ==
    \A p \in Providers :
        ~adapterLog[p].fulfilled =>
            /\ \A k \in 1..Len(usedProviders) : usedProviders[k] # p
            /\ \A k \in 1..Len(allTracks) : allTracks[k].provider # p
            /\ \A q \in DOMAIN parallelResults :
                   q = p => parallelResults[q].value = <<>>
            /\ pc = "done" =>
                   /\ \A k \in 1..Len(response.providers) : response.providers[k] # p
                   /\ \A k \in 1..Len(response.tracks) : response.tracks[k].provider # p

\* C13: the search has returned tracks; the calls of one provider all
\* failed, one of them by the timeout with tracks arriving after it
C13_LateResultDropped ==
    /\ pc = "done"
    /\ response.tracks # <<>>
    /\ \E p \in Providers : adapterLog[p].abandoned /\ ~adapterLog[p].fulfilled

\* the accumulated tracks of provider p
TracksOf(p) == SelectSeq(allTracks, LAMBDA t : t.provider = p)

\* the condition of the parallel fallback on the accumulated tracks
FallbackWanted ==
    /\ Len(allTracks) < 3
    /\ searchConfig.fallbackEnabled
    /\ Len(enabledProviders) > 1

\* the parallel fallback has run or is running
FallbackRan == pc = "parallel" \/ DOMAIN parallelResults # {}

\* C14: the parallel fallback runs exactly when the sequential phase left
\* fewer than 3 tracks, fallback is enabled and more than one provider is
\* enabled; it searches every enabled provider, and adds the tracks of the
\* providers not yet marked as contributed only: no provider is listed twice
\* and no track of a provider is accumulated twice.
C14_ParallelFallback ==
    /\ pc = "parallel" =>
          /\ FallbackWanted
          /\ pending \cup DOMAIN parallelResults = EnabledSet
          /\ pending \cap DOMAIN parallelResults = {}
    /\ (pc = "done" /\ ~FallbackRan) => ~FallbackWanted
    /\ (pc = "done" /\ FallbackRan) =>
          /\ searchConfig.fallbackEnabled /\ Len(enabledProviders) > 1
          /\ DOMAIN parallelResults = EnabledSet
    /\ \A i, j \in 1..Len(usedProviders) : i # j => usedProviders[i] # usedProviders[j]
    /\ pc = "done" => response.providers = usedProviders
    /\ \A p \in Providers :
          \E own \in {TracksOf(p)} :
              /\ \A i, j \in 1..Len(own) : i # j => own[i].id # own[j].id
              /\ (own # <<>> /\ DOMAIN parallelResults # {}) =>
                    \E k \in 1..Len(usedProviders) : usedProviders[k] = p

\* C14: the fallback ran after a sequential phase in which one provider gave
\* 2 tracks and another failed; in the fallback the first gave 1 track,
\* which was not added, and the other gave tracks, which were
C14_OnlyNewProvidersAdded ==
    /\ pc = "done"
    /\ DOMAIN parallelResults = EnabledSet
    /\ \E p, q \in EnabledSet :
          /\ p # q
          /\ Len(TracksOf(p)) = 2
          /\ Len(parallelResults[p].value) = 1
          /\ adapterLog[q].failed
          /\ parallelResults[q].value # <<>>
          /\ TracksOf(q) = parallelResults[q].value

\* C15: the parallel fallback ends only when the search of every enabled
\* provider has settled, in whatever order they settle, and it ends with a
\* response: a failed or timed-out search neither ends it early nor keeps
\* the tracks of a provider whose search succeeded out of the merge.
C15_SettleAllJoin ==
    /\ FallbackRan => pc \in {"parallel", "done"}
    /\ (pc = "done" /\ FallbackRan) =>
          /\ pending = {}
          /\ response.error = NoError
          /\ \A p \in EnabledSet :
                /\ p \in DOMAIN parallelResults
                /\ parallelResults[p].status = "fulfilled"
                /\ parallelResults[p].value # <<>> =>
                      /\ TracksOf(p) # <<>>
                      /\ \E k \in 1..Len(response.providers) : response.providers[k] = p
                      /\ adapterLog[p].failed =>
                            TracksOf(p) = parallelResults[p].value

\* C15: in a fallback over three providers the search of the first failed and
\* the searches of the other two, which had failed before, gave tracks that
\* were merged
C15_MergedDespiteFailure ==
    /\ pc = "done"
    /\ Len(enabledProviders) = 3
    /\ DOMAIN parallelResults = EnabledSet
    /\ parallelResults[enabledProviders[1]].value = <<>>
    /\ OnlyFailed(enabledProviders[1])
    /\ \A i \in 2..3 :
          /\ adapterLog[enabledProviders[i]].failed
          /\ parallelResults[enabledProviders[i]].value # <<>>
          /\ TracksOf(enabledProviders[i]) = parallelResults[enabledProviders[i]].value

\* C16: the error of a provider's adapter leaves searchMusic only when
\* exactly one provider is enabled and fallback is disabled, and in that case
\* it does: the call whose only provider failed ends with an error, not with
\* an empty response.
C16_SingleProviderErrorSurfaced ==
    /\ (pc = "threw" /\ enabledProviders # <<>>) =>
          Len(enabledProviders) = 1 /\ ~searchConfig.fallbackEnabled
    /\ (/\ pc \in {"done", "threw"}
        /\ Len(enabledProviders) = 1
        /\ ~searchConfig.fallbackEnabled
        /\ OnlyFailed(enabledProviders[1])) =>
          pc = "threw" /\ response.error # NoError

\* C16: the only enabled provider failed, fallback is disabled, and the call
\* returned an empty response
C16_SingleFailureSwallowed ==
    /\ pc = "done"
    /\ Len(enabledProviders) = 1
    /\ ~searchConfig.fallbackEnabled
    /\ OnlyFailed(enabledProviders[1])
    /\ response = EmptySuccess

\* the providers listed in the response
Listed == {response.providers[k] : k \in 1..Len(response.providers)}

\* the providers of the returned tracks
Returned == {response.tracks[k].provider : k \in 1..Len(response.tracks)}

\* C17 as stated: the providers listed in the response are exactly the
\* providers of the returned tracks.
C17_ProvidersOfReturnedTracks ==
    pc = "done" => Listed = Returned

\* C17: the providers listed in the response are exactly the providers that
\* gave at least one accumulated track, each listed once; the provider of
\* every returned track is among them.
C17_ProvidersContributed ==
    pc = "done" =>
        /\ Listed = {p \in Providers : TracksOf(p) # <<>>}
        /\ Cardinality(Listed) = Len(response.providers)
        /\ Returned \subseteq Listed

\* C17: two providers gave tracks and the returned list, cut to maxResults,
\* has tracks of one of them only
C17_ListedWithoutReturnedTrack ==
    /\ pc = "done"
    /\ Cardinality(Listed) = 2
    /\ Cardinality(Returned) = 1

\* C18: with fallback disabled no provider is searched once a successful
\* search has brought the accumulated tracks to maxResults or more: the loop
\* is left there and the providers of lower priority are never invoked; with
\* fallback enabled the sequential phase invokes every enabled provider.
C18_EarlyStop ==
    /\ (pc = "sequential" /\ ~searchConfig.fallbackEnabled) =>
          Len(allTracks) < searchConfig.maxResults
    /\ (pc = "done" /\ ~searchConfig.fallbackEnabled) =>
          /\ \A k \in 1..Len(enabledProviders) : Invoked(enabledProviders[k]) <=> k <= idx
          /\ idx < Len(enabledProviders) =>
                /\ Len(allTracks) >= searchConfig.maxResults
                /\ usedProviders[Len(usedProviders)] = enabledProviders[idx]
          /\ \A k \in 1..(idx - 1) :
                Len(SelectSeq(allTracks,
                              LAMBDA t : \E j \in 1..k : t.provider = enabledProviders[j]))
                    < searchConfig.maxResults
    /\ (pc \in {"parallel", "done"} /\ searchConfig.fallbackEnabled) =>
          /\ idx = Len(enabledProviders)
          /\ \A p \in EnabledSet : Invoked(p)

\* C18: fallback is disabled, three providers are enabled, the first gave
\* maxResults tracks or more and the call returned without searching the
\* other two
C18_StoppedAfterFirst ==
    /\ pc = "done"
    /\ ~searchConfig.fallbackEnabled
    /\ Len(enabledProviders) = 3
    /\ idx = 1
    /\ Len(allTracks) >= searchConfig.maxResults
    /\ ~Invoked(enabledProviders[2]) /\ ~Invoked(enabledProviders[3])

\* C18: fallback is enabled, the first provider gave maxResults tracks or
\* more, and the other providers were searched all the same
C18_AllSearchedWithFallback ==
    /\ pc = "done"
    /\ searchConfig.fallbackEnabled
    /\ Len(enabledProviders) = 3
    /\ Len(TracksOf(enabledProviders[1])) >= searchConfig.maxResults
    /\ \A p \in EnabledSet : Invoked(p)

\* C19: SpotifyService.searchMusic fails on a transport-level error: in a
\* process without Spotify credentials, where no token can be obtained, no
\* call of it returns, and none gives tracks.
C19_SpotifyFailsWithoutCredentials ==
    ~configured["spotify"] =>
        /\ ~adapterLog["spotify"].fulfilled
        /\ adapterLog["spotify"].returned = <<>>

\* C19: without Spotify credentials the call of the Spotify adapter returned
\* its five built-in tracks, and the search answered with them
C19_FallbackTracksReturned ==
    /\ pc = "done"
    /\ ~configured["spotify"]
    /\ adapterLog["spotify"].returned = SpotifyFallbackTracks
    /\ response.providers = <<"spotify">>
    /\ response.tracks # <<>>

\* the request of the call that failed
FailedRequest == yUpstream[ySearches]

\* C20: when the search of the YouTube adapter fails because of quota
\* exhaustion, an authentication failure or a timeout, the error that reaches
\* its caller carries that kind, and the search route answers 503 for a
\* quota failure, 504 for a timeout and 500 only for the other failures.
C20_ErrorKindCarried ==
    (yPc \in {"threw", "answered"} /\ yError # "") =>
        /\ FailedRequest.kind = "quota" => Includes(yError, "quota")
        /\ FailedRequest.kind = "timeout" => Includes(yError, "timeout")
        /\ yPc = "answered" =>
              yStatus = CASE FailedRequest.kind = "quota" -> 503
                          [] FailedRequest.kind = "timeout" -> 504
                          [] OTHER -> 500

\* C20: a search failed because the quota was exhausted and the route
\* answered 500
C20_QuotaAnswered500 ==
    /\ yPc = "answered"
    /\ FailedRequest.status = "error"
    /\ FailedRequest.kind = "quota"
    /\ yStatus = 500

-----------------------------------------------------------------------------
(* Properties of the token cache                                            *)

\* the expiry that was computed when token was stored
ExpiryOf(token) == NewExpiry(tIssued[token].storedAt, tIssued[token].expiresIn)

\* no token request was sent while the service held a valid token, a call
\* that is waiting has sent one request, and a call answered from the cache
\* got a token that had not expired
CacheRespected ==
    /\ \A k \in 1..Len(tRequests) : ~tRequests[k].cached
    /\ \A c \in DOMAIN tPc :
          /\ tPc[c] # "idle" =>
                /\ tLast[c].how = "waiting"
                /\ tRequests[tLast[c].request].call = c
                /\ \A k \in 1..Len(tRequests) :
                      tRequests[k].call = c => k <= tLast[c].request
          /\ tLast[c].how = "cached" =>
                /\ tLast[c].token \in DOMAIN tIssued
                /\ tIssued[tLast[c].token].service = ServiceOf(c, tVia)
                /\ tLast[c].at < ExpiryOf(tLast[c].token)

\* C21 as stated: the cached token is returned without a token request
\* while the time is before the stored expiry, otherwise one token request is
\* made, and the expiry stored with a token is the time of its request plus
\* expires_in minus 60 seconds.
C21_CachedUntilExpiryAsStated ==
    /\ CacheRespected
    /\ \A s \in DOMAIN accessToken :
          accessToken[s] # 0 =>
              tokenExpiry[s] = tRequests[accessToken[s]].at
                                   + tIssued[accessToken[s]].expiresIn * 1000 - 60000

\* C21: the cached token is returned without a token request while the time
\* is before the stored expiry, otherwise one token request is made, and the
\* expiry stored with a token is the time at which its response was read
\* plus expires_in minus 60 seconds.
C21_CachedUntilExpiry ==
    /\ CacheRespected
    /\ \A s \in DOMAIN accessToken :
          accessToken[s] # 0 =>
              tokenExpiry[s] = tIssued[accessToken[s]].storedAt
                                   + tIssued[accessToken[s]].expiresIn * 1000 - 60000

\* C21: a token was stored some time after its request, a call was answered
\* from the cache, and after the expiry a second token request was sent
C21_ReusedThenRefreshed ==
    /\ Len(tRequests) = 2
    /\ 1 \in DOMAIN tIssued
    /\ tIssued[1].storedAt > tRequests[1].at
    /\ tRequests[2].service = tRequests[1].service
    /\ tRequests[2].at >= ExpiryOf(1)
    /\ \E c \in DOMAIN tLast : tLast[c].how = "cached" /\ tLast[c].token = 1

\* C22: the token cache is shared by the music-search requests one process
\* serves: no request sends a token request while a token that an earlier
\* request stored has not expired.
C22_ProcessWideCache ==
    tVia = "request" =>
        \A k \in 1..Len(tRequests) : \A t \in DOMAIN tIssued :
            ~(tIssued[t].storedAt < tRequests[k].at /\ tRequests[k].at < ExpiryOf(t))

\* C22: a second request sent a token request 30 seconds after the first
\* request had stored a token that was valid for 60 seconds
C22_SecondRequestFetchesAgain ==
    /\ tVia = "request"
    /\ Len(tRequests) = 2
    /\ tRequests[1].call # tRequests[2].call
    /\ 1 \in DOMAIN tIssued
    /\ tIssued[1].storedAt < tRequests[2].at
    /\ tRequests[2].at < ExpiryOf(1)

\* C23: when calls on the same service refresh the token concurrently, each
\* call that reads a token response returns the token of its own request,
\* and the cache always holds a token together with the expiry that was
\* computed from that token's response.
C23_RaceTolerantRefresh ==
    /\ \A s \in DOMAIN accessToken :
          accessToken[s] # 0 =>
              /\ accessToken[s] \in DOMAIN tIssued
              /\ tIssued[accessToken[s]].service = s
              /\ tokenExpiry[s] = ExpiryOf(accessToken[s])
    /\ \A s \in DOMAIN accessToken : accessToken[s] = 0 => tokenExpiry[s] = 0
    /\ \A c \in DOMAIN tLast :
          tLast[c].how = "fetched" =>
              /\ tRequests[tLast[c].token].call = c
              /\ tLast[c].token \in DOMAIN tIssued

\* C23: two calls on one service both found the cache empty and sent a token
\* request before either response was read; the responses had different
\* expires_in, both calls got their token, and the cache holds the token
\* stored last
C23_BothRefreshed ==
    /\ tVia = "search"
    /\ Len(tRequests) = 2
    /\ DOMAIN tIssued = {1, 2}
    /\ tRequests[1].call # tRequests[2].call
    /\ tRequests[2].at <= tIssued[1].storedAt
    /\ tIssued[1].expiresIn > tIssued[2].expiresIn
    /\ tIssued[1].storedAt <= tIssued[2].storedAt
    /\ \A c \in Calls : tLast[c].how = "fetched"
    /\ tLast[1].token # tLast[2].token

RECURSIVE SumOfTimeouts(_)
\* the sum of the configured timeouts of the providers in ps
SumOfTimeouts(ps) ==
    IF ps = {} THEN 0
    ELSE LET p == CHOOSE q \in ps : TRUE
         IN  ConfigOf(p).timeout + SumOfTimeouts(ps \ {p})

\* the largest configured timeout of the enabled providers
LargestTimeout ==
    IF EnabledSet = {} THEN 0
    ELSE CHOOSE t \in {ConfigOf(p).timeout : p \in EnabledSet} :
             \A p \in EnabledSet : ConfigOf(p).timeout <= t

\* the search has returned or thrown
Ended == pc \in {"done", "threw"}

\* C24 as stated, its bound: the time a search spends waiting for providers
\* never exceeds the sum of the configured timeouts of its enabled providers.
C24_WaitWithinSumOfTimeouts == waited <= SumOfTimeouts(EnabledSet)

\* C24: provided the timers fire, every started search eventually returns or
\* throws, and the time it spends waiting for providers never exceeds the sum
\* of the configured timeouts of its enabled providers plus, once the parallel
\* fallback runs, the largest of those timeouts.
C24_BoundedWaiting ==
    /\ Searching ~> Ended
    /\ [](waited <= SumOfTimeouts(EnabledSet)
                     + (IF FallbackRan THEN LargestTimeout ELSE 0))

\* C24 witness: every adapter call of a search with several providers ran
\* into its timer, in the loop and in the fallback, and the search returned
\* after the sum of the timeouts and the largest of them.
C24_AllTimersFired ==
    /\ pc = "done"
    /\ Len(enabledProviders) > 1
    /\ FallbackRan
    /\ waited = SumOfTimeouts(EnabledSet) + LargestTimeout

\* C25: during smartSearch a provider lacking credentials is not invoked by
\* the orchestrator: no call of the adapter of an unconfigured provider is
\* made, for each of YouTube, SoundCloud and Spotify.
C25_UnconfiguredSkipped ==
    entry = "smartSearch" =>
        \A p \in Providers : ~configured[p] => ~Invoked(p)

\* C25 witness: smartSearch has called the Spotify adapter in a process
\* without Spotify credentials, and the search went on to the next provider.
C25_UnconfiguredSpotifyInvoked ==
    /\ entry = "smartSearch"
    /\ ~configured["spotify"]
    /\ Invoked("spotify")
    /\ Invoked("youtube")

\* C26: when the request names a configured provider, the unified route
\* searches exactly that provider (it alone enabled, fallback disabled) and
\* answers with the results of that search, never with 'No music providers
\* available.', for each of youtube, soundcloud and spotify.
C26_PreferredProviderSearched ==
    (uAnswer.status # 0 /\ uProvider # "" /\ configured[uProvider]) =>
        /\ EnabledSet = {uProvider}
        /\ ~searchConfig.fallbackEnabled
        /\ uAnswer.status = 200
        /\ uAnswer.results = response.tracks
        /\ \A p \in Providers \ {uProvider} : ~Invoked(p)

\* C26 witness: a request naming spotify, in a process with Spotify
\* credentials, was answered 503 'No music providers available.' without any
\* provider searched.
C26_SpotifyRequestRefused ==
    /\ uProvider = "spotify"
    /\ configured["spotify"]
    /\ uAnswer = [status |-> 503, error |-> "No music providers available."]
    /\ \A p \in Providers : ~Invoked(p)

RECURSIVE SumOver(_, _)
\* the sum of counts[t] over the times t in ts
SumOver(counts, ts) ==
    IF ts = {} THEN 0
    ELSE LET t == CHOOSE u \in ts : TRUE
         IN  counts[t] + SumOver(counts, ts \ {t})

\* the requests of caller key admitted in the 60 seconds from time `from`
AdmittedWithin(key, from) ==
    SumOver(rlLog.admitted[key], {t \in RateTimes : from <= t /\ t < from + WindowMs})

\* C27: for each caller key a route admits at most maxRequests requests (20
\* unified, 10 YouTube) within any interval of 60 seconds, and a request
\* refused by the limiter is answered 429 and starts no search.
C27_SlidingRateLimit ==
    rlRoute # "off" =>
        /\ \A key \in Keys, from \in RateTimes :
               AdmittedWithin(key, from) <= MaxRequestsOf(rlRoute)
        /\ rlLog.last.status = 429 => ~rlLog.last.search

\* C27 witness: a caller was admitted maxRequests times in one window and
\* again, within 60 seconds of those, after the window was reset.
C27_AdmittedAcrossReset ==
    /\ rlRoute # "off"
    /\ \E key \in Keys, from \in RateTimes :
           /\ AdmittedWithin(key, from) > MaxRequestsOf(rlRoute)
           /\ rlLog.last = [key |-> key, at |-> rlNow, status |-> 0, search |-> TRUE]

\* C28: getDurationScore is maximal on the ideal band of 180 to 240 seconds,
\* where it returns the optimal score 5, and returns a strictly smaller value
\* for every duration outside that band.
C28_DurationScorePeaksOnIdealBand ==
    (fnName = "getDurationScore" /\ fnOutput # <<>>) =>
        IF fnInput >= 180 /\ fnInput <= 240
        THEN fnOutput[1] = 5
        ELSE fnOutput[1] < 5

\* C28 witness: a duration of the ideal band was scored 4, the score of
\* every duration from 2 to 6 minutes.
C28_IdealBandScoredAsStandard ==
    /\ fnName = "getDurationScore"
    /\ fnInput = 200
    /\ fnOutput = <<4>>

\* C29: the response of YouTubeService.searchMusic contains every track that
\* its first search produced, so it never has fewer tracks than the first
\* search returned, whatever the retry and the playlist search return.
C29_RetryKeepsFirstTracks ==
    yPc = "done" =>
        /\ VideoIds(yFirst) \subseteq VideoIds(yResult)
        /\ Len(yResult) >= Len(yFirst)

\* C29 witness: the first search found tracks, the retry and the playlist
\* search found none, and the response is empty.
C29_FirstTracksLost ==
    /\ yPc = "done"
    /\ ySearches = 3
    /\ Len(yFirst) > 0
    /\ RetryTracks = <<>>
    /\ PlaylistTracks = <<>>
    /\ yResult = <<>>

\* C30: the removal of duplicates removes a track only when an earlier
\* accumulated track has the same case-insensitive title and the same
\* case-insensitive artist: a track that differs in title or in artist from
\* every earlier one is kept, for titles and artists with or without '-'.
C30_DedupByTitleAndArtist ==
    (fnName = "uniqueTracks" /\ fnOutput # <<>>) =>
        \A i \in 1..Len(fnInput) :
           (\A j \in 1..(i - 1) : Pair(fnInput[j]) # Pair(fnInput[i])) =>
               \E k \in 1..Len(fnOutput[1]) : fnOutput[1][k] = fnInput[i]

\* C30 witness: of two tracks with different titles and different artists
\* the second was removed as a duplicate of the first.
C30_DistinctTracksMerged ==
    /\ fnName = "uniqueTracks"
    /\ fnInput = <<[title |-> "a-b", artist |-> "c"], [title |-> "a", artist |-> "b-c"]>>
    /\ fnOutput = <<(<<[title |-> "a-b", artist |-> "c"]>>)>>

=============================================================================
